---------------------------- MODULE Spec2Model ----------------------------
(***************************************************************************)
(* A model of gui-idle's Global Expedition automation core:                *)
(*   - the entity tracker          (src/app/global/entity.go, 1..344)      *)
(*   - the template matcher        (src/unnamed/part_005, 1..220)          *)
(*   - the GlobalBot state machine (src/unnamed/part_001)                  *)
(*   - the Start/Stop/loop goroutine protocol (src/unnamed/part_001)       *)
(* The specifications share the variables below; each one drives the part  *)
(* of the program it is about and leaves the other variables untouched.    *)
(*   SpecTracker  calls of the EntityTracker API in any order              *)
(*   SpecClicks   Update and RecordClick on one button that may move       *)
(*   SpecSide     Update and RecordClick on a button that moves sideways   *)
(*   SpecOrder    Update on three stacked buttons of one priority          *)
(*   SpecKey      entityKey applied to pairs of nearby positions           *)
(*   SpecROI      SetLastHighPriority, Reset, GetROI and HasROI            *)
(*   SpecMatch    FindAllTemplates applied to bounded frames and templates *)
(*   SpecMatchROI FindAllTemplatesInROI on bounded frames and regions      *)
(*   SpecQuick    both searches on templates with transparent pixels       *)
(*   SpecColour   colorSimilar applied to pairs of pixels                  *)
(*   SpecLoad     loadTargets on directories of entry templates and the     *)
(*                ROI fast path over the templates loaded                  *)
(*   Spec         the sequential tick loop of GlobalBot (processState)     *)
(*   SpecEntry    the Entry state with moving and bottom-edge buttons      *)
(*   SpecBudget   the Entry state on one button, the clicks on it counted  *)
(*   SpecFull     the Entry state with buttons of two priorities           *)
(*   SpecBot      Start, Stop and loop goroutines interleaved              *)
(*   SpecObserve  the writes of a transition seen by another goroutine     *)
(***************************************************************************)
EXTENDS Integers, Sequences, FiniteSets, TLC

VARIABLES
    \* ---- EntityTracker (entity.go:29-43)
    entities,           \* map key -> TrackedEntity
    blacklist,          \* map key -> time of blacklisting
    lastHighPriEntity,  \* *DetectedEntity or NoEntity (nil)
    now,                \* time.Now(), in seconds
    \* ---- history of the tracker calls (not program state)
    lastCall,           \* the last tracker call and what it did
    clickCalls,         \* key -> number of RecordClick calls since the last Reset
    clickRun,           \* the same, restarted when Update removes the key's entity
    \* ---- GlobalBot (part_001:38-85)
    State,              \* b.State
    searchRetryCount,   \* b.searchRetryCount
    entryWaitCount,     \* b.entryWaitCount
    tick,               \* position of the loop goroutine inside a tick
    lastTick,           \* history: what the last handler step did
    \* ---- Start/Stop/loop control (part_001:81-84, 121-172)
    stopChan,           \* b.stopChan: the identity of the current channel
    closedChans,        \* the channels that have been closed
    wg,                 \* b.wg counter
    mu,                 \* b.mu holder, or NoOwner
    callers,            \* caller goroutine -> its position in Start/Stop
    loops,              \* loop goroutine -> its position in loop()
    \* ---- Searcher (part_005:137-220)
    frame,              \* screenImg
    template,           \* templateImg
    matches             \* the returned []image.Point

trackerVars == <<entities, blacklist, lastHighPriEntity, now>>
trackerHist == <<lastCall, clickCalls, clickRun>>
fsmVars     == <<State, searchRetryCount, entryWaitCount, tick, lastTick>>
ctlVars     == <<stopChan, closedChans, wg, mu, callers, loops>>
matchVars   == <<frame, template, matches>>
vars == <<trackerVars, trackerHist, fsmVars, ctlVars, matchVars>>

-----------------------------------------------------------------------------
(* Small helpers *)

Range(s) == {s[i] : i \in DOMAIN s}

abs(x) == IF x < 0 THEN -x ELSE x

\* Go's integer division truncates toward zero.
GoDiv(a, b) == IF a >= 0 THEN a \div b ELSE -((-a) \div b)

\* Sequences over S of length 0..n without repetition.
SeqsUpTo(S, n) ==
    UNION {{s \in [1..k -> S] : \A i, j \in 1..k : i # j => s[i] # s[j]} : k \in 0..n}

\* The map m without key k (delete(m, k)).
MapDelete(m, k) == [x \in DOMAIN m \ {k} |-> m[x]]

\* The map m with m[k] = v (m[k] = v in Go, inserting or overwriting).
MapPut(m, k, v) == [x \in DOMAIN m \cup {k} |-> IF x = k THEN v ELSE m[x]]

EmptyMap == [x \in {} |-> 0]

-----------------------------------------------------------------------------
(* EntityTracker: src/app/global/entity.go *)

\* NewEntityTracker's parameters (entity.go:50-53).
maxClicks == 7
positionThresh == 20
ttl == 2
roiMargin == 100

\* findMovedEntity's thresholds (entity.go:144-145).
xThreshold == 30
yMaxMove == 200

NoEntity == [TemplateName |-> "nil"]

DetectedEntity(name, pri, x, y, w, h) ==
    [TemplateName |-> name, Priority |-> pri,
     Position |-> [X |-> x, Y |-> y], TemplateSize |-> [X |-> w, Y |-> h]]

\* a key quantized to the nearest multiple of positionThresh
entityKey_Nearest(e) ==
    <<e.Priority,
      GoDiv(e.Position.X + GoDiv(positionThresh, 2), positionThresh) * positionThresh,
      GoDiv(e.Position.Y + GoDiv(positionThresh, 2), positionThresh) * positionThresh>>

\* entityKey: the string "<pri>_<qx>_<qy>" is modelled by the triple it is
\* built from (the decimal rendering with "_" separators is injective).
entityKey(e) ==
    <<e.Priority,
      GoDiv(e.Position.X, positionThresh) * positionThresh,
      GoDiv(e.Position.Y, positionThresh) * positionThresh>>

\* The test findMovedEntity applies to one tracked entity e and detection d.
MovedMatch(e, d) ==
    /\ e.Priority = d.Priority
    /\ abs(e.Position.X - d.Position.X) <= xThreshold
    /\ LET yDiff == e.Position.Y - d.Position.Y
       IN  \/ (yDiff > 0 /\ yDiff <= yMaxMove)
           \/ (yDiff < 0 /\ -yDiff <= positionThresh)

\* findMovedEntity ranges over the map t.entities and returns the first key
\* that passes: Go's map iteration order is unspecified, so the result is any
\* of the keys that pass, and "" (here: the empty set) when none does.
findMovedEntity(ents, d) ==
    {k \in DOMAIN ents : MovedMatch(ents[k].Entity, d)}

\* The entity stored under the new key when a tracked entity moved
\* (entity.go:103-108).
MovedEntity_ZeroClicks(oldEntity, d, t) ==
    [Entity |-> d, ClickCount |-> 0, FirstSeen |-> t, LastSeen |-> t]

MovedEntity(oldEntity, d, t) ==
    [Entity |-> d, ClickCount |-> oldEntity.ClickCount,
     FirstSeen |-> oldEntity.FirstSeen, LastSeen |-> t]

\* The entity map after a move: the new key is stored, the old key deleted
\* (entity.go:103, 115).
TransferEntity_DeleteNewKey(ents, key, matchedKey, tracked) ==
    MapDelete(MapPut(ents, key, tracked), key)

TransferEntity(ents, key, matchedKey, tracked) ==
    MapDelete(MapPut(ents, key, tracked), matchedKey)

\* a move that takes the old key off the blacklist and does not enter the new
TransferBlacklist_Dropped(bl, key, matchedKey) == MapDelete(bl, matchedKey)

\* The blacklist after a move (entity.go:110-114).
TransferBlacklist(bl, key, matchedKey) ==
    IF matchedKey \in DOMAIN bl
    THEN MapDelete(MapPut(bl, key, bl[matchedKey]), matchedKey)
    ELSE bl

\* One iteration of Update's first pass (entity.go:84-129) on detection d,
\* with matchedKey the key findMovedEntity returned (or "none").
\* st = [entities, blacklist, seen, moved]; seen is the map of the same name,
\* moved records the keys whose entity was transferred away (history only).
UpdateOne(st, d, matchedKey, t) ==
    LET key == entityKey(d) IN
    IF key \in DOMAIN st.entities
    THEN [st EXCEPT !.seen = @ \cup {key},
                    !.entities = MapPut(@, key,
                        [st.entities[key] EXCEPT !.LastSeen = t, !.Entity = d])]
    ELSE IF matchedKey # "none"
    THEN [entities |-> TransferEntity(st.entities, key, matchedKey,
                            MovedEntity(st.entities[matchedKey], d, t)),
          blacklist |-> TransferBlacklist(st.blacklist, key, matchedKey),
          seen |-> st.seen \cup {key},
          moved |-> st.moved \cup {matchedKey}]
    ELSE [st EXCEPT !.seen = @ \cup {key},
                    !.entities = MapPut(@, key,
                        [Entity |-> d, ClickCount |-> 0,
                         FirstSeen |-> t, LastSeen |-> t])]

\* The states the first pass can be in after detection d.
UpdateStep(st, d, t) ==
    IF entityKey(d) \in DOMAIN st.entities
    THEN {UpdateOne(st, d, "none", t)}
    ELSE LET cands == findMovedEntity(st.entities, d)
         IN IF cands = {} THEN {UpdateOne(st, d, "none", t)}
            ELSE {UpdateOne(st, d, k, t) : k \in cands}

RECURSIVE UpdatePass(_, _, _, _)
UpdatePass(sts, detected, i, t) ==
    IF i > Len(detected) THEN sts
    ELSE UpdatePass(UNION {UpdateStep(st, detected[i], t) : st \in sts},
                    detected, i + 1, t)

\* The age test of the expiry pass (entity.go:133).
IsExpired_AtTTL(tracked, t) == t - tracked.LastSeen >= ttl

IsExpired(tracked, t) == t - tracked.LastSeen > ttl

\* The expiry pass (entity.go:131-138); expired records the removed keys.
Expire(st, t) ==
    LET gone == {k \in DOMAIN st.entities :
                    k \notin st.seen /\ IsExpired(st.entities[k], t)}
    IN [entities |-> [k \in DOMAIN st.entities \ gone |-> st.entities[k]],
        blacklist |-> st.blacklist, seen |-> st.seen, moved |-> st.moved,
        expired |-> gone]

\* EntityTracker.Update: every outcome the call can have.
Update(ents, bl, detected, t) ==
    {Expire(st, t) :
        st \in UpdatePass({[entities |-> ents, blacklist |-> bl,
                            seen |-> {}, moved |-> {}]}, detected, 1, t)}

IsBlacklisted(bl, e) == entityKey(e) \in DOMAIN bl

\* RecordClick's threshold test (entity.go:221).
ReachedMaxClicks_Above(tracked) == tracked.ClickCount > maxClicks

ReachedMaxClicks(tracked) == tracked.ClickCount >= maxClicks

\* a RecordClick that counts the click on a blacklisted key as well
RecordClick_CountsBlacklisted(ents, bl, e, t) ==
    LET key == entityKey(e)
        tracked == IF key \in DOMAIN ents THEN ents[key]
                   ELSE [Entity |-> e, ClickCount |-> 0,
                         FirstSeen |-> t, LastSeen |-> t]
        clicked == [tracked EXCEPT !.ClickCount = @ + 1]
    IN [entities |-> MapPut(ents, key, clicked),
        blacklist |-> IF key \in DOMAIN bl THEN bl ELSE
                      IF clicked.ClickCount >= maxClicks THEN MapPut(bl, key, t)
                      ELSE bl,
        ret |-> key \in DOMAIN bl \/ clicked.ClickCount >= maxClicks]

\* EntityTracker.RecordClick: [entities, blacklist, ret].
RecordClick(ents, bl, e, t) ==
    LET key == entityKey(e) IN
    IF key \in DOMAIN bl
    THEN [entities |-> ents, blacklist |-> bl, ret |-> TRUE]
    ELSE LET tracked == IF key \in DOMAIN ents THEN ents[key]
                        ELSE [Entity |-> e, ClickCount |-> 0,
                              FirstSeen |-> t, LastSeen |-> t]
             clicked == [tracked EXCEPT !.ClickCount = @ + 1]
             ents1 == MapPut(ents, key, clicked)
         IN IF ReachedMaxClicks(clicked)
            THEN [entities |-> ents1, blacklist |-> MapPut(bl, key, t), ret |-> TRUE]
            ELSE [entities |-> ents1, blacklist |-> bl, ret |-> FALSE]

GetClickCount(ents, e) ==
    IF entityKey(e) \in DOMAIN ents THEN ents[entityKey(e)].ClickCount ELSE 0

\* FilterBlacklisted keeps the order of its argument.
FilterBlacklisted(bl, es) == SelectSeq(es, LAMBDA e : ~IsBlacklisted(bl, e))

\* a Reset that clears the blacklist and the ROI but keeps the entities
Reset_KeepsEntities ==
    [entities |-> entities, blacklist |-> EmptyMap, lastHighPriEntity |-> NoEntity]

\* Reset (entity.go:257-263)
Reset == [entities |-> EmptyMap, blacklist |-> EmptyMap, lastHighPriEntity |-> NoEntity]

-----------------------------------------------------------------------------
(* Bounds of the model *)

\* The clock advances at most MaxAdvances times, by one TTL each time.
MaxAdvances == 2
\* Update is called with at most MaxDet detections.
MaxDet == 2
\* SpecTracker makes at most MaxClickCalls RecordClick calls between two Resets.
MaxClickCalls == 1
\* the number of Start calls that get past the State check
MaxStarts == 2

-----------------------------------------------------------------------------
(* SpecTracker: the EntityTracker API called in any order *)

\* Detections the tracker is driven with: two stacked buttons of the template
\* 20.png, 50 px apart, and a button of
\* another priority at the place of the lower one.
dLow  == DetectedEntity(<<"2", "0", ".", "p", "n", "g">>, 20, 100, 500, 40, 40)
dHigh == DetectedEntity(<<"2", "0", ".", "p", "n", "g">>, 20, 105, 450, 40, 40)
dOther == DetectedEntity(<<"1", "0", ".", "p", "n", "g">>, 10, 100, 500, 40, 40)
TrackerDetections == {dLow, dHigh, dOther}

NoCall == [op |-> "none"]

\* The GlobalBot fields after NewGlobalBot (part_001:87-102).
FsmIdle ==
    /\ State = "Stopped" /\ searchRetryCount = 0 /\ entryWaitCount = 0
    /\ tick = [pc |-> "idle"] /\ lastTick = [op |-> "none"]

CtlIdle ==
    /\ stopChan = 0 /\ closedChans = {} /\ wg = 0 /\ mu = "free"
    /\ callers = <<>> /\ loops = <<>>

\* No search in progress.
MatchIdle == frame = <<>> /\ template = <<>> /\ matches = <<>>

\* The tracker after NewEntityTracker (entity.go:46-56).
TrackerIdle ==
    /\ entities = EmptyMap /\ blacklist = EmptyMap
    /\ lastHighPriEntity = NoEntity /\ now = 0
    /\ lastCall = NoCall /\ clickCalls = EmptyMap /\ clickRun = EmptyMap

TrackerInit == TrackerIdle /\ FsmIdle /\ CtlIdle /\ MatchIdle

\* t.Update(detected), for detected a list over the detections es.
UpdateCall(es) ==
    \E detected \in SeqsUpTo(es, MaxDet) :
      \E st \in Update(entities, blacklist, detected, now) :
        /\ entities' = st.entities
        /\ blacklist' = st.blacklist
        /\ lastCall' = [op |-> "Update", detected |-> detected,
                        seen |-> st.seen, moved |-> st.moved,
                        expired |-> st.expired]
        /\ clickRun' = [k \in DOMAIN clickRun |->
                            IF k \in st.moved \cup st.expired THEN 0 ELSE clickRun[k]]
        /\ UNCHANGED <<lastHighPriEntity, now, clickCalls>>
        /\ UNCHANGED <<fsmVars, ctlVars, matchVars>>

TUpdate == UpdateCall(TrackerDetections)

\* The number of RecordClick calls since the last Reset.
RECURSIVE SumCalls(_, _)
SumCalls(cc, ks) ==
    IF ks = {} THEN 0
    ELSE LET k == CHOOSE x \in ks : TRUE IN cc[k] + SumCalls(cc, ks \ {k})
TotalClickCalls == SumCalls(clickCalls, DOMAIN clickCalls)

\* t.RecordClick(e), for e among the detections es.
RecordClickCall(es) ==
    \E e \in es :
      LET r == RecordClick(entities, blacklist, e, now)
          k == entityKey(e)
          n == IF k \in DOMAIN clickCalls THEN clickCalls[k] ELSE 0
          m == IF k \in DOMAIN clickRun THEN clickRun[k] ELSE 0
      IN /\ entities' = r.entities
         /\ blacklist' = r.blacklist
         /\ lastCall' = [op |-> "RecordClick", e |-> e, key |-> k, ret |-> r.ret,
                         blacklisted |-> k \in DOMAIN blacklist]
         /\ clickCalls' = MapPut(clickCalls, k, IF n < maxClicks THEN n + 1 ELSE n)
         /\ clickRun' = MapPut(clickRun, k, IF m < maxClicks THEN m + 1 ELSE m)
         /\ UNCHANGED <<lastHighPriEntity, now>>
         /\ UNCHANGED <<fsmVars, ctlVars, matchVars>>

TRecordClick ==
    /\ TotalClickCalls < MaxClickCalls
    /\ RecordClickCall(TrackerDetections)

\* t.Reset()
TReset ==
    /\ entities' = Reset.entities
    /\ blacklist' = Reset.blacklist
    /\ lastHighPriEntity' = Reset.lastHighPriEntity
    /\ lastCall' = [op |-> "Reset"]
    /\ clickCalls' = EmptyMap
    /\ clickRun' = EmptyMap
    /\ UNCHANGED now
    /\ UNCHANGED <<fsmVars, ctlVars, matchVars>>

\* Time passes between two calls: one TTL, so that the time since a sighting
\* is below, at, or above the TTL.
TAdvance ==
    /\ now < MaxAdvances * ttl
    /\ now' = now + ttl
    /\ lastCall' = [op |-> "Advance"]
    /\ UNCHANGED <<entities, blacklist, lastHighPriEntity, clickCalls, clickRun>>
    /\ UNCHANGED <<fsmVars, ctlVars, matchVars>>

TrackerNext == TUpdate \/ TRecordClick \/ TReset \/ TAdvance

SpecTracker == TrackerInit /\ [][TrackerNext]_vars

-----------------------------------------------------------------------------
(* SpecClicks: RecordClick up to the blacklist threshold, on two stacked   *)
(* buttons, with Update, Reset and the clock in between                    *)

ClickDetections == {dLow, dHigh}

CUpdate == UpdateCall(ClickDetections)

\* The clicks all go to the lower button.
CRecordClick == RecordClickCall({dLow})

ClicksNext == CUpdate \/ CRecordClick \/ TReset \/ TAdvance

SpecClicks == TrackerInit /\ [][ClicksNext]_vars

-----------------------------------------------------------------------------
(* SpecSide: Update and RecordClick on a button that moves sideways *)

\* The lower button one pixel to the left: the same row, the next cell of the
\* quantization grid.
dSide == DetectedEntity(<<"2", "0", ".", "p", "n", "g">>, 20, 99, 500, 40, 40)

SideDetections == {dLow, dSide}

SUpdate == UpdateCall(SideDetections)

\* The clicks go to the button where it was first.
SRecordClick == RecordClickCall({dLow})

SideNext == SUpdate \/ SRecordClick \/ TReset \/ TAdvance

SpecSide == TrackerInit /\ [][SideNext]_vars

-----------------------------------------------------------------------------
(* SpecOrder: Update on three stacked buttons of one priority *)

\* A button above the two others, within xThreshold of both in x and less
\* than yMaxMove above both.
dTop == DetectedEntity(<<"2", "0", ".", "p", "n", "g">>, 20, 110, 400, 40, 40)

OrderDetections == {dLow, dHigh, dTop}

OUpdate == UpdateCall(OrderDetections)

\* One click, on the lowest button.
ORecordClick ==
    /\ TotalClickCalls < MaxClickCalls
    /\ RecordClickCall({dLow})

OrderNext == OUpdate \/ ORecordClick \/ TReset \/ TAdvance

SpecOrder == TrackerInit /\ [][OrderNext]_vars

-----------------------------------------------------------------------------
(* SpecKey: entityKey applied to two detections of one priority *)

\* Screen coordinates next to the boundaries of the quantization grid.
KeyCoords == {0, 1, 19, 20, 21, 39, 40}

KeyPriorities == {10, 20}

KeyInit ==
    /\ entities = EmptyMap /\ blacklist = EmptyMap
    /\ lastHighPriEntity = NoEntity /\ now = 0
    /\ clickCalls = EmptyMap /\ clickRun = EmptyMap
    /\ \E pri \in KeyPriorities : \E ax, ay, bx, by \in KeyCoords :
         lastCall = [op |-> "none",
                     a |-> DetectedEntity(<<>>, pri, ax, ay, 40, 40),
                     b |-> DetectedEntity(<<>>, pri, bx, by, 40, 40)]
    /\ FsmIdle /\ CtlIdle /\ MatchIdle

\* t.entityKey(a) and t.entityKey(b)
KeyCall ==
    /\ lastCall.op = "none"
    /\ lastCall' = [op |-> "entityKey", a |-> lastCall.a, b |-> lastCall.b,
                    ka |-> entityKey(lastCall.a), kb |-> entityKey(lastCall.b)]
    /\ UNCHANGED <<trackerVars, clickCalls, clickRun, fsmVars, ctlVars, matchVars>>

KeyNext == KeyCall

SpecKey == KeyInit /\ [][KeyNext]_vars

-----------------------------------------------------------------------------
(* Searcher: src/unnamed/part_005 *)

\* constants.DefaultTolerance (part_005:252), on the 0..255 channel scale
DefaultTolerance == 60

\* A uint32 is kept as two 16-bit halves, so that the arithmetic of colorSimilar
\* wraps modulo 2^32 as it does in Go.
U32(n) == [hi |-> n \div 65536, lo |-> n % 65536]

\* a subtraction that stops at 0 instead of wrapping
Sub32_Saturating(x, y) ==
    IF x.hi < y.hi \/ (x.hi = y.hi /\ x.lo < y.lo) THEN U32(0)
    ELSE [hi |-> x.hi - y.hi - (IF x.lo < y.lo THEN 1 ELSE 0),
          lo |-> (x.lo - y.lo) % 65536]

\* x - y on uint32
Sub32(x, y) ==
    LET lo == x.lo - y.lo
        borrow == IF lo < 0 THEN 1 ELSE 0
    IN [hi |-> (x.hi - y.hi - borrow) % 65536, lo |-> lo % 65536]

\* x + y on uint32
Add32(x, y) ==
    LET lo == x.lo + y.lo
    IN [hi |-> (x.hi + y.hi + lo \div 65536) % 65536, lo |-> lo % 65536]

\* The product of two 16-bit values, as a uint32.
Mul16(a, b) ==
    LET a1 == a \div 256
        a0 == a % 256
        b1 == b \div 256
        b0 == b % 256
        t  == (a1 * b0 + a0 * b1) * 256 + a0 * b0
    IN [hi |-> (a1 * b1 + t \div 65536) % 65536, lo |-> t % 65536]

\* x * y on uint32
Mul32(x, y) ==
    LET p == Mul16(x.lo, y.lo)
        cross == Mul16(x.hi, y.lo).lo + Mul16(x.lo, y.hi).lo
    IN [hi |-> (p.hi + cross) % 65536, lo |-> p.lo]

\* math.Sqrt(float64(v)) <= tolerance, for a whole tolerance below 256:
\* float64 holds every uint32 exactly, and the root is at most t iff v <= t*t.
SqrtAtMost(v, tolerance) == v.hi = 0 /\ v.lo <= tolerance * tolerance

\* colorSimilar (part_005:194-198)
colorSimilar(r1, g1, b1, r2, g2, b2, tolerance) ==
    LET dr == Sub32(U32(r1), U32(r2))
        dg == Sub32(U32(g1), U32(g2))
        db == Sub32(U32(b1), U32(b2))
    IN SqrtAtMost(Add32(Add32(Mul32(dr, dr), Mul32(dg, dg)), Mul32(db, db)),
                  tolerance)

\* An image is its width, its height and its rows of pixels; a pixel is what
\* img.At(x, y).RGBA() returns, four 16-bit values <<r, g, b, a>>.  Bounds().Min
\* is (0, 0), as it is for a decoded file and for a captured screen.
Images(w, h, colours) == [w : {w}, h : {h}, pix : [1..h -> [1..w -> colours]]]

\* getRgbAndAlpha (part_005:145-149): the channels shifted down to 0..255
getRgbAndAlpha(img, x, y) ==
    LET c == img.pix[y + 1][x + 1]
    IN <<c[1] \div 256, c[2] \div 256, c[3] \div 256, c[4] \div 256>>

IsTransparent_Never(ta) == FALSE

\* the wildcard test of match (part_005:208)
IsTransparent(ta) == ta = 0

\* the comparison of one template pixel in match (part_005:205-216)
PixelMatches(screenImg, templateImg, sx, sy, tx, ty, tolerance) ==
    LET t == getRgbAndAlpha(templateImg, tx, ty)
        s == getRgbAndAlpha(screenImg, sx + tx, sy + ty)
    IN IsTransparent(t[4])
       \/ colorSimilar(s[1], s[2], s[3], t[1], t[2], t[3], tolerance)

\* match (part_005:200-220)
match(screenImg, templateImg, sx, sy, tolerance) ==
    \A ty \in 0..(templateImg.h - 1) : \A tx \in 0..(templateImg.w - 1) :
        PixelMatches(screenImg, templateImg, sx, sy, tx, ty, tolerance)

\* a quick check that compares the sampled pixel whatever its alpha
QuickCheck_AlphaIgnored(screenImg, templateImg, x, y, px, py, tolerance) ==
    LET t == getRgbAndAlpha(templateImg, px, py)
        s == getRgbAndAlpha(screenImg, x + px, y + py)
    IN colorSimilar(s[1], s[2], s[3], t[1], t[2], t[3], tolerance)

\* One quick check of FindAllTemplates (part_005:163-180): the template pixel
\* at (px, py), unless its alpha is 0, against the screen pixel under it.
QuickCheck(screenImg, templateImg, x, y, px, py, tolerance) ==
    LET t == getRgbAndAlpha(templateImg, px, py)
        s == getRgbAndAlpha(screenImg, x + px, y + py)
    IN t[4] > 0 => colorSimilar(s[1], s[2], s[3], t[1], t[2], t[3], tolerance)

\* The three quick checks: top-left, center, bottom-right.
QuickChecks(screenImg, templateImg, x, y, tolerance) ==
    /\ QuickCheck(screenImg, templateImg, x, y, 0, 0, tolerance)
    /\ QuickCheck(screenImg, templateImg, x, y,
                  GoDiv(templateImg.w, 2), GoDiv(templateImg.h, 2), tolerance)
    /\ QuickCheck(screenImg, templateImg, x, y,
                  templateImg.w - 1, templateImg.h - 1, tolerance)

SkipAfterMatch_Width(tWidth) == tWidth
SkipAfterMatch_None(tWidth) == 0

\* x += tWidth / 2 after a match (part_005:186)
SkipAfterMatch(tWidth) == GoDiv(tWidth, 2)

\* image.Rectangle
Rect(x0, y0, x1, y1) == [MinX |-> x0, MinY |-> y0, MaxX |-> x1, MaxY |-> y1]
ZeroRect == Rect(0, 0, 0, 0)
\* a rectangle that counts as empty only when it is the zero rectangle
RectEmpty_ZeroOnly(r) == r = ZeroRect

\* Rectangle.Empty()
RectEmpty(r) == r.MinX >= r.MaxX \/ r.MinY >= r.MaxY
Max2(a, b) == IF a > b THEN a ELSE b
Min2(a, b) == IF a < b THEN a ELSE b
Intersect(r, s) ==
    LET i == Rect(Max2(r.MinX, s.MinX), Max2(r.MinY, s.MinY),
                  Min2(r.MaxX, s.MaxX), Min2(r.MaxY, s.MaxY))
    IN IF RectEmpty(i) THEN ZeroRect ELSE i

\* The two loops of FindAllTemplates (part_005:159-189), from the cursor (x, y)
\* with the matches found so far.
RECURSIVE Scan(_, _, _, _, _, _)
Scan(screenImg, templateImg, tolerance, x, y, found) ==
    IF y > screenImg.h - templateImg.h THEN found
    ELSE IF x > screenImg.w - templateImg.w
         THEN Scan(screenImg, templateImg, tolerance, 0, y + 1, found)
    ELSE IF /\ QuickChecks(screenImg, templateImg, x, y, tolerance)
            /\ match(screenImg, templateImg, x, y, tolerance)
         THEN Scan(screenImg, templateImg, tolerance,
                   x + SkipAfterMatch(templateImg.w) + 1, y,
                   Append(found, <<x, y>>))
    ELSE Scan(screenImg, templateImg, tolerance, x + 1, y, found)

\* FindAllTemplates (part_005:137-192)
FindAllTemplates(screenImg, templateImg, tolerance) ==
    Scan(screenImg, templateImg, tolerance, 0, 0, <<>>)

\* FindTemplate (part_005:56-62)
FindTemplate(screenImg, templateImg, tolerance) ==
    LET ms == FindAllTemplates(screenImg, templateImg, tolerance)
    IN IF Len(ms) > 0 THEN <<ms[1][1], ms[1][2], TRUE>> ELSE <<0, 0, FALSE>>

\* The two loops of FindAllTemplatesInROI (part_005:102-130), over the
\* positions of searchArea, from the cursor (x, y).
RECURSIVE ScanROI(_, _, _, _, _, _, _)
ScanROI(screenImg, templateImg, tolerance, searchArea, x, y, found) ==
    IF y > searchArea.MaxY - templateImg.h THEN found
    ELSE IF x > searchArea.MaxX - templateImg.w
         THEN ScanROI(screenImg, templateImg, tolerance, searchArea,
                      searchArea.MinX, y + 1, found)
    ELSE IF /\ QuickChecks(screenImg, templateImg, x, y, tolerance)
            /\ match(screenImg, templateImg, x, y, tolerance)
         THEN ScanROI(screenImg, templateImg, tolerance, searchArea,
                      x + SkipAfterMatch(templateImg.w) + 1, y,
                      Append(found, <<x, y>>))
    ELSE ScanROI(screenImg, templateImg, tolerance, searchArea, x + 1, y, found)

\* FindAllTemplatesInROI (part_005:67-133)
FindAllTemplatesInROI(screenImg, templateImg, roi, tolerance) ==
    IF RectEmpty(roi)
    THEN FindAllTemplates(screenImg, templateImg, tolerance)
    ELSE LET searchArea == Intersect(roi, Rect(0, 0, screenImg.w, screenImg.h))
         IN IF RectEmpty(searchArea) THEN <<>>
            ELSE IF \/ searchArea.MaxX - searchArea.MinX < templateImg.w
                    \/ searchArea.MaxY - searchArea.MinY < templateImg.h
            THEN <<>>
            ELSE ScanROI(screenImg, templateImg, tolerance, searchArea,
                         searchArea.MinX, searchArea.MinY, <<>>)

-----------------------------------------------------------------------------
(* SpecMatch: FindAllTemplates on bounded frames and templates *)

\* the widest frame
MaxW == 3

FrameHeights == {1, 2}

\* Two screen colours, opaque, 100 apart in red.
FrameColours == {<<0, 0, 0, 65535>>, <<25700, 0, 0, 65535>>}

\* Two opaque template colours, each within the tolerance of the screen colour
\* below and above it except the second of the first, and a transparent pixel.
Transparent == <<0, 0, 0, 0>>
TemplateColours == {<<12850, 5140, 5140, 65535>>, <<38550, 5140, 5140, 65535>>,
                    Transparent}

TemplateShapes == {<<1, 1>>, <<2, 1>>, <<1, 2>>, <<2, 2>>, <<3, 1>>}

Frames == UNION {Images(w, h, FrameColours) : w \in 1..MaxW, h \in FrameHeights}

Templates == UNION {Images(s[1], s[2], TemplateColours) : s \in TemplateShapes}

MatchInit ==
    /\ frame \in Frames /\ template \in Templates /\ matches = <<>>
    /\ TrackerIdle /\ FsmIdle /\ CtlIdle

\* s.FindAllTemplates(frame, template, DefaultTolerance)
FindCall ==
    /\ lastCall.op = "none"
    /\ matches' = FindAllTemplates(frame, template, DefaultTolerance)
    /\ lastCall' = [op |-> "FindAllTemplates"]
    /\ UNCHANGED <<frame, template>>
    /\ UNCHANGED <<trackerVars, clickCalls, clickRun, fsmVars, ctlVars>>

MatchNext == FindCall

SpecMatch == MatchInit /\ [][MatchNext]_vars

-----------------------------------------------------------------------------
(* SpecMatchROI: FindAllTemplatesInROI on bounded frames, opaque templates  *)
(* and regions of interest                                                  *)

OpaqueColours == TemplateColours \ {Transparent}

ROITemplateShapes == {<<1, 1>>, <<2, 1>>, <<2, 2>>}

ROITemplates ==
    UNION {Images(s[1], s[2], OpaqueColours) : s \in ROITemplateShapes}

\* The regions the search is called with: the zero rectangle, a rectangle of
\* no width, one of no height, one whose corners are swapped, regions inside
\* the frame, one that covers it, one that overlaps its corner and one
\* outside it.
ROIs ==
    {ZeroRect, Rect(1, 0, 1, 2), Rect(0, 1, 3, 1), Rect(2, 2, 0, 0),
     Rect(0, 0, 2, 1), Rect(1, 0, 3, 2), Rect(0, 0, 5, 3), Rect(-1, -1, 1, 1),
     Rect(5, 5, 9, 9)}

MatchROIInit ==
    /\ frame \in Frames /\ template \in ROITemplates /\ matches = <<>>
    /\ TrackerIdle /\ FsmIdle /\ CtlIdle

\* s.FindAllTemplatesInROI(frame, template, roi, DefaultTolerance)
FindROICall ==
    /\ lastCall.op = "none"
    /\ \E roi \in ROIs :
         /\ matches' = FindAllTemplatesInROI(frame, template, roi, DefaultTolerance)
         /\ lastCall' = [op |-> "FindAllTemplatesInROI", roi |-> roi]
    /\ UNCHANGED <<frame, template>>
    /\ UNCHANGED <<trackerVars, clickCalls, clickRun, fsmVars, ctlVars>>

MatchROINext == FindROICall

SpecMatchROI == MatchROIInit /\ [][MatchROINext]_vars

-----------------------------------------------------------------------------
(* SpecQuick: FindAllTemplates and FindAllTemplatesInROI on templates with  *)
(* and without transparent pixels                                           *)

\* The template of three pixels in a row is the one whose center pixel is
\* neither its top-left nor its bottom-right pixel.
QuickTemplateShapes == {<<1, 1>>, <<2, 1>>, <<1, 2>>, <<3, 1>>}

QuickTemplates ==
    UNION {Images(s[1], s[2], TemplateColours) : s \in QuickTemplateShapes}

\* The zero rectangle, two regions inside the frame and one that covers it.
QuickROIs == {ZeroRect, Rect(0, 0, 2, 1), Rect(1, 0, 3, 2), Rect(0, 0, 5, 3)}

\* Frames of one row up to the widest, and frames of two rows up to two
\* pixels wide.
QuickFrames ==
    UNION ({Images(w, 1, FrameColours) : w \in 1..MaxW}
           \cup {Images(w, 2, FrameColours) : w \in 1..2})

QuickInit ==
    /\ frame \in QuickFrames /\ template \in QuickTemplates /\ matches = <<>>
    /\ TrackerIdle /\ FsmIdle /\ CtlIdle

\* s.FindAllTemplatesInROI(frame, template, roi, DefaultTolerance)
QuickROICall ==
    /\ lastCall.op = "none"
    /\ \E roi \in QuickROIs :
         /\ matches' = FindAllTemplatesInROI(frame, template, roi, DefaultTolerance)
         /\ lastCall' = [op |-> "FindAllTemplatesInROI", roi |-> roi]
    /\ UNCHANGED <<frame, template>>
    /\ UNCHANGED <<trackerVars, clickCalls, clickRun, fsmVars, ctlVars>>

QuickNext == FindCall \/ QuickROICall

SpecQuick == QuickInit /\ [][QuickNext]_vars

-----------------------------------------------------------------------------
(* SpecColour: colorSimilar on the pixel of a frame and the pixel of a      *)
(* template                                                                 *)

\* Channel values on the 0..255 scale: the ends of the range and the values
\* around the tolerance.
ChannelValues == {0, 1, DefaultTolerance, DefaultTolerance + 1, 255}

\* Opaque pixels as RGBA() returns them: an 8-bit channel v is v * 257.
ColourPixels ==
    {<<r * 257, g * 257, b * 257, 65535>> :
        r \in ChannelValues, g \in ChannelValues, b \in ChannelValues}

ColourInit ==
    /\ frame \in Images(1, 1, ColourPixels)
    /\ template \in Images(1, 1, ColourPixels)
    /\ matches = <<>>
    /\ TrackerIdle /\ FsmIdle /\ CtlIdle

\* colorSimilar(sr, sg, sb, tr, tg, tb, DefaultTolerance) on the two pixels
ColourCall ==
    /\ lastCall.op = "none"
    /\ LET s == getRgbAndAlpha(frame, 0, 0)
           t == getRgbAndAlpha(template, 0, 0)
       IN lastCall' = [op |-> "colorSimilar",
                       ret |-> colorSimilar(s[1], s[2], s[3], t[1], t[2], t[3],
                                            DefaultTolerance)]
    /\ UNCHANGED <<frame, template, matches>>
    /\ UNCHANGED <<trackerVars, clickCalls, clickRun, fsmVars, ctlVars>>

ColourNext == ColourCall

SpecColour == ColourInit /\ [][ColourNext]_vars

-----------------------------------------------------------------------------
(* GlobalBot's handlers: src/unnamed/part_001:174-727 *)

\* constants (part_005:229-246), in milliseconds
EntryScanIntervalHighSpeed == 150
InGameScanInterval == 30000
SearchScanInterval == 2000
SearchRetryInterval == 500
WaitAfterClickNormal == 1000
\* constants.SearchMaxRetries (part_005:236)
SearchMaxRetries == 3

\* the y below which handleEntryState ignores a match (part_001:284, 333)
BottomY == 950
\* the lobby checks of handleEntryWaitingState (part_001:541)
MaxWaitChecks == 10
\* the verification attempts of clickAndVerifyEntry (part_001:419)
VerifyAttempts == 5

\* a ROI with the margin on the top and left sides only
GetROI_MarginTopLeft(lhp) ==
    IF lhp = NoEntity THEN ZeroRect
    ELSE Rect(lhp.Position.X - roiMargin, lhp.Position.Y - roiMargin,
              lhp.Position.X + lhp.TemplateSize.X,
              lhp.Position.Y + lhp.TemplateSize.Y)

\* GetROI (entity.go:282-304)
GetROI(lhp) ==
    IF lhp = NoEntity THEN ZeroRect
    ELSE Rect(lhp.Position.X - roiMargin, lhp.Position.Y - roiMargin,
              lhp.Position.X + lhp.TemplateSize.X + roiMargin,
              lhp.Position.Y + lhp.TemplateSize.Y + roiMargin)

\* HasROI (entity.go:307-311)
HasROI(lhp) == lhp # NoEntity

\* The captured screen of a tick is what the searcher finds on it: the marker
\* categories FindTemplate finds, and the entry buttons FindAllTemplates
\* returns (isolated matches, one per button).  Its bounds:
ScreenBounds == Rect(0, 0, 1920, 1080)

\* A point comes before another in the scan order of FindAllTemplates: rows
\* top to bottom, each row left to right (part_005:159-160).
ScanBefore(p, q) == p.Y < q.Y \/ (p.Y = q.Y /\ p.X < q.X)

\* The detections es in scan order.
RECURSIVE InScanOrder(_)
InScanOrder(es) ==
    IF es = {} THEN <<>>
    ELSE LET first == CHOOSE e \in es :
                        \A f \in es \ {e} : ScanBefore(e.Position, f.Position)
         IN <<first>> \o InScanOrder(es \ {first})

\* FindAllTemplates on a captured screen showing the buttons `shown`, for the
\* entry template `name` (part_001:316): that template's buttons, as
\* detections, in scan order.
FindAllShown(shown, name) ==
    InScanOrder({e \in shown : e.TemplateName = name})

\* FindAllTemplatesInROI on that screen (part_005:67-133): the search runs
\* over the positions at which the template lies inside roi and the screen.
FindAllShownInROI(shown, name, roi) ==
    IF RectEmpty(roi) THEN FindAllShown(shown, name)
    ELSE LET searchArea == Intersect(roi, ScreenBounds)
         IN IF RectEmpty(searchArea) THEN <<>>
            ELSE InScanOrder({e \in shown :
                    /\ e.TemplateName = name
                    /\ searchArea.MaxX - searchArea.MinX >= e.TemplateSize.X
                    /\ searchArea.MaxY - searchArea.MinY >= e.TemplateSize.Y
                    /\ searchArea.MinX <= e.Position.X
                    /\ e.Position.X <= searchArea.MaxX - e.TemplateSize.X
                    /\ searchArea.MinY <= e.Position.Y
                    /\ e.Position.Y <= searchArea.MaxY - e.TemplateSize.Y})

\* A file name is the sequence of its characters.
Digits == <<"0", "1", "2", "3", "4", "5", "6", "7", "8", "9">>
IsDigit(c) == \E i \in 1..10 : Digits[i] = c
DigitValue(c) == (CHOOSE i \in 1..10 : Digits[i] = c) - 1

\* strconv.Atoi of the leading digits of a name, from character i on, with
\* the value n read so far.
RECURSIVE LeadingNumber(_, _, _)
LeadingNumber(name, i, n) ==
    IF i > Len(name) \/ ~IsDigit(name[i]) THEN n
    ELSE LeadingNumber(name, i + 1, 10 * n + DigitValue(name[i]))

\* ExtractPriority (entity.go:314-323): the number a file name starts with,
\* or 0.
ExtractPriority(filename) == LeadingNumber(filename, 1, 0)

\* an order by vertical position first and priority second
Less_YFirst(a, b) ==
    IF a.Position.Y # b.Position.Y THEN a.Position.Y > b.Position.Y
    ELSE a.Priority > b.Priority

\* SortEntitiesByPriority's less (entity.go:329-334)
Less(a, b) ==
    IF a.Priority # b.Priority THEN a.Priority > b.Priority
    ELSE a.Position.Y > b.Position.Y

\* SortEntitiesByPriority (entity.go:328-335): sort.Slice is not stable, so
\* every ordering of es that agrees with less is a possible result.
SortEntitiesByPriority(es) ==
    {s \in [1..Len(es) -> Range(es)] :
        /\ \A e \in Range(es) :
              Cardinality({i \in 1..Len(es) : s[i] = e}) =
              Cardinality({i \in 1..Len(es) : es[i] = e})
        /\ \A i \in 1..Len(es) : \A j \in 1..Len(es) :
              i < j => ~Less(s[j], s[i])}

\* Center (entity.go:338-343)
Center(e) == [X |-> e.Position.X + GoDiv(e.TemplateSize.X, 2),
              Y |-> e.Position.Y + GoDiv(e.TemplateSize.Y, 2)]

\* The detection handleEntryState builds from a match (part_001:288-293,
\* 337-342).
EntityOf(m) ==
    DetectedEntity(m.TemplateName, ExtractPriority(m.TemplateName),
                   m.Position.X, m.Position.Y, m.TemplateSize.X, m.TemplateSize.Y)

\* The matches of the templates `targets`, in the order of the templates,
\* that lie above the bottom line, as detections.
RECURSIVE Detections(_, _, _, _)
Detections(shown, targets, roi, i) ==
    IF i > Len(targets) THEN <<>>
    ELSE LET points == FindAllShownInROI(shown, targets[i], roi)
             kept == SelectSeq(points, LAMBDA m : ~(m.Position.Y > BottomY))
         IN [k \in 1..Len(kept) |-> EntityOf(kept[k])]
            \o Detections(shown, targets, roi, i + 1)

ReachedMaxRetries_Above(n) == n > SearchMaxRetries

\* the retries never count as used up
ReachedMaxRetries_Never(n) == FALSE

\* b.searchRetryCount >= constants.SearchMaxRetries (part_001:656, 682, 709)
ReachedMaxRetries(n) == n >= SearchMaxRetries

\* the checks with the channel list's open marker tried before its select marker
AutoDetectChecks_OpenFirst ==
    << <<"skill", "InGame", InGameScanInterval>>,
       <<"exit", "ExitStep1", 0>>,
       <<"lobby", "EntryWaiting", 0>>,
       <<"return", "ExitStep2", 0>>,
       <<"open", "SearchOpen", 0>>,
       <<"select", "SearchSelect", 0>>,
       <<"finding", "Entry", 0>>,
       <<"games", "Entry", 0>> >>

\* The order of the checks of handleAutoDetectState (part_001:223-234): the
\* marker category, the state it leads to, the delay returned.
AutoDetectChecks ==
    << <<"skill", "InGame", InGameScanInterval>>,
       <<"exit", "ExitStep1", 0>>,
       <<"lobby", "EntryWaiting", 0>>,
       <<"return", "ExitStep2", 0>>,
       <<"select", "SearchSelect", 0>>,
       <<"open", "SearchOpen", 0>>,
       <<"finding", "Entry", 0>>,
       <<"games", "Entry", 0>> >>

Markers == {AutoDetectChecks[i][1] : i \in DOMAIN AutoDetectChecks}

SearchStates == {"SearchOpen", "SearchSelect", "SearchVerify"}

-----------------------------------------------------------------------------
(* Spec: the ticks of one GlobalBot, one after the other, with Start and    *)
(* Stop between ticks                                                       *)

\* most value entryWaitCount is followed to (capture failures raise it
\* without limit)
MaxWaitCount == 11

\* The entry templates in the order loadTargets leaves them (part_001:777-797).
Name20 == <<"2", "0", ".", "p", "n", "g">>
Name10 == <<"1", "0", ".", "p", "n", "g">>
targetsGames == <<Name20, Name10>>

\* What Start may find under find_game/games: templates that load, no file
\* that matches *.png, files that do not decode, or a directory path that is
\* not a well-formed glob pattern.
GamesDirs == {"present", "missing", "unreadable", "bad pattern"}

\* loadTargets("find_game/games") (part_001:777-797): only filepath.Glob
\* returns an error, and only for a malformed pattern; a file that does not
\* load is skipped.
loadTargets(dir) ==
    IF dir = "bad pattern" THEN [targets |-> <<>>, err |-> TRUE]
    ELSE [targets |-> IF dir = "present" THEN targetsGames ELSE <<>>,
          err |-> FALSE]

\* loadAllAssets (part_001:729-765) returns an error exactly when loading
\* the games does; every other template that fails to load is a warning.
loadAllAssets(dir) == loadTargets(dir).err

\* The entry buttons a captured screen may show: the two stacked buttons of
\* 20.png, the upper one inside the ROI of the lower one and the other way
\* round, and a match of 20.png below the bottom line.
gBottom == DetectedEntity(Name20, 20, 100, 960, 40, 40)
ShownButtons == {dLow, dHigh, gBottom}

\* the most marker categories one captured screen shows
MaxVisible == 2

\* The sets of markers a captured screen may show, out of the markers a
\* handler looks at.
Screens(markers) == {v \in SUBSET markers : Cardinality(v) <= MaxVisible}

Idle == [pc |-> "idle"]

Tracker == [entities |-> entities, blacklist |-> blacklist,
            lastHighPriEntity |-> lastHighPriEntity]

AfterUpdate(st) == [entities |-> st.entities, blacklist |-> st.blacklist,
                    lastHighPriEntity |-> lastHighPriEntity]

\* The failed searches in a row of the visit to a search state: a tick that
\* captured the screen and did not find the state's marker adds one, a change
\* of state starts again.
Fails(st, cap, found) ==
    IF st # State THEN 0
    ELSE IF State \in SearchStates /\ cap /\ ~found THEN lastTick.fails + 1
    ELSE lastTick.fails

\* The checks of the visit to EntryWaiting so far: every tick of the visit
\* that captured the screen adds one; -1 once a capture of the visit failed.
Visit(op, cap) ==
    IF op # "EntryWaiting" THEN 0
    ELSE IF ~cap \/ lastTick.visit < 0 THEN -1
    ELSE lastTick.visit + 1

\* Some verification attempt since the click captured a screen without the
\* entry-screen marker.
Absent(op, cap, vis) ==
    IF op # "EntryVerify" THEN FALSE
    ELSE lastTick.absent \/ (cap /\ "finding" \notin vis)

\* The end of a step of a tick: the fields it leaves behind, the position in
\* the tick, and what the step did on a screen that showed the markers vis.
StepHist(op, st, retry, wait, trk, pc, cap, found, delay, click, vis, calls) ==
    /\ State' = st
    /\ searchRetryCount' = retry
    /\ entryWaitCount' = wait
    /\ entities' = trk.entities
    /\ blacklist' = trk.blacklist
    /\ lastHighPriEntity' = trk.lastHighPriEntity
    /\ tick' = pc
    /\ lastTick' = [op |-> op, cap |-> cap, found |-> found, delay |-> delay,
                    click |-> click, fails |-> Fails(st, cap, found),
                    vis |-> vis, visit |-> Visit(op, cap),
                    absent |-> Absent(op, cap, vis)]
    /\ clickCalls' = calls
    /\ UNCHANGED <<now, lastCall, clickRun, matchVars>>

\* The same for a step that leaves the history of the clicks as it is.
StepVis(op, st, retry, wait, trk, pc, cap, found, delay, click, vis) ==
    StepHist(op, st, retry, wait, trk, pc, cap, found, delay, click, vis,
             clickCalls)

\* The same for a step whose screen is not recorded.
StepOf(op, st, retry, wait, trk, pc, cap, found, delay, click) ==
    StepVis(op, st, retry, wait, trk, pc, cap, found, delay, click, {})

\* A step of a tick on a screen that showed vis.
StepSeen(op, st, retry, wait, trk, pc, cap, found, delay, click, vis) ==
    /\ StepVis(op, st, retry, wait, trk, pc, cap, found, delay, click, vis)
    /\ UNCHANGED ctlVars

\* A step of a tick: it leaves Start's and Stop's variables alone.
Step(op, st, retry, wait, trk, pc, cap, found, delay, click) ==
    /\ StepOf(op, st, retry, wait, trk, pc, cap, found, delay, click)
    /\ UNCHANGED ctlVars

FsmInit ==
    /\ TrackerIdle /\ CtlIdle /\ MatchIdle
    /\ State = "Stopped" /\ searchRetryCount = 0 /\ entryWaitCount = 0
    /\ tick = Idle
    /\ lastTick = [op |-> "none", cap |-> FALSE, found |-> FALSE, delay |-> 0,
                   click |-> "none", fails |-> 0, vis |-> {}, visit |-> 0,
                   absent |-> FALSE]

Ticking(s) == State = s /\ tick = Idle

\* Start (part_001:121-141) while stopped: loadAllAssets returns an error or
\* it does not.
FStart ==
    /\ Ticking("Stopped")
    /\ stopChan < MaxStarts
    /\ \E dir \in GamesDirs : LET loaded == ~loadAllAssets(dir) IN
         /\ StepOf("Start", IF loaded THEN "AutoDetect" ELSE "Stopped",
                   searchRetryCount, entryWaitCount, Tracker, Idle,
                   FALSE, FALSE, 0, "none")
         /\ stopChan' = IF loaded THEN stopChan + 1 ELSE stopChan
    /\ UNCHANGED <<closedChans, wg, mu, callers, loops>>

\* Stop (part_001:143-156) between two ticks.
FStop ==
    /\ State # "Stopped" /\ tick = Idle
    /\ StepOf("Stop", "Stopped", searchRetryCount, entryWaitCount, Tracker, Idle,
              FALSE, FALSE, 0, "none")
    /\ closedChans' = closedChans \cup {stopChan}
    /\ UNCHANGED <<stopChan, wg, mu, callers, loops>>

\* Time passes between two ticks.
FAdvance ==
    /\ State # "Stopped" /\ tick = Idle
    /\ now < MaxAdvances * ttl
    /\ now' = now + ttl
    /\ lastTick' = [lastTick EXCEPT !.op = "Advance"]
    /\ UNCHANGED <<entities, blacklist, lastHighPriEntity, trackerHist>>
    /\ UNCHANGED <<State, searchRetryCount, entryWaitCount, tick>>
    /\ UNCHANGED <<ctlVars, matchVars>>

\* the last check that finds its marker, in place of the first
FirstHit_Last(vis) ==
    LET hits == {i \in DOMAIN AutoDetectChecks : AutoDetectChecks[i][1] \in vis}
    IN IF hits = {} THEN 0 ELSE CHOOSE i \in hits : \A j \in hits : i >= j

\* The first check of handleAutoDetectState that finds its marker among vis.
FirstHit(vis) ==
    LET hits == {i \in DOMAIN AutoDetectChecks : AutoDetectChecks[i][1] \in vis}
    IN IF hits = {} THEN 0 ELSE CHOOSE i \in hits : \A j \in hits : i <= j

\* handleAutoDetectState (part_001:199-239)
AutoDetectTick ==
    /\ Ticking("AutoDetect")
    /\ \E cap \in BOOLEAN :
       \E vis \in Screens(Markers) :
         LET i == FirstHit(vis)
         IN IF ~cap
            THEN /\ vis = {}
                 /\ Step("AutoDetect", State, searchRetryCount, entryWaitCount,
                         Tracker, Idle, FALSE, FALSE,
                         EntryScanIntervalHighSpeed, "none")
            ELSE IF i # 0
            THEN StepSeen("AutoDetect", AutoDetectChecks[i][2], 0, entryWaitCount,
                          Tracker, Idle, TRUE, TRUE, AutoDetectChecks[i][3],
                          "none", vis)
            ELSE StepSeen("AutoDetect", State, searchRetryCount, entryWaitCount,
                          Tracker, Idle, TRUE, FALSE, SearchScanInterval,
                          "none", vis)

\* The ROI fast path of handleEntryState (part_001:274-308): the first match
\* inside the ROI that is above the bottom line and not blacklisted.
ROICandidates(shown) ==
    LET roi == GetROI(lastHighPriEntity)
    IN IF RectEmpty(roi) THEN <<>>
       ELSE FilterBlacklisted(blacklist, Detections(shown, targetsGames, roi, 1))

\* handleEntryState (part_001:241-390), up to the call of clickAndVerifyEntry,
\* on a screen that shows some of the entry buttons `buttons`
EntryTick(buttons) ==
    /\ Ticking("Entry")
    /\ \E cap \in BOOLEAN : \E vis \in Screens({"skill", "exit", "lobby"}) :
       \E shown \in SUBSET buttons :
         IF ~cap
         THEN /\ vis = {} /\ shown = {}
              /\ Step("Entry", State, searchRetryCount, entryWaitCount, Tracker,
                      Idle, FALSE, FALSE, 400, "none")
         ELSE IF "exit" \in vis
         THEN /\ shown = {}
              /\ StepSeen("Entry", "ExitStep1", searchRetryCount, entryWaitCount,
                          Reset, Idle, TRUE, FALSE, 0, "none", vis)
         ELSE IF "lobby" \in vis
         THEN /\ shown = {}
              /\ StepSeen("Entry", "EntryWaiting", searchRetryCount, 0,
                          Reset, Idle, TRUE, FALSE, 5000, "none", vis)
         ELSE IF ROICandidates(shown) # <<>>
         THEN LET entity == ROICandidates(shown)[1]
              IN \E st \in Update(entities, blacklist, <<entity>>, now) :
                   StepSeen("EntryROI", State, searchRetryCount, entryWaitCount,
                            AfterUpdate(st), [pc |-> "click", entity |-> entity],
                            TRUE, TRUE, 0, "none", vis)
         ELSE LET allEntities == Detections(shown, targetsGames, ZeroRect, 1)
              IN \E st \in Update(entities, blacklist, allEntities, now) :
                   LET validEntities == FilterBlacklisted(st.blacklist, allEntities)
                   IN IF validEntities = <<>>
                      THEN StepSeen("Entry", State, searchRetryCount,
                                    entryWaitCount, AfterUpdate(st), Idle, TRUE,
                                    FALSE, EntryScanIntervalHighSpeed, "none", vis)
                      ELSE \E sorted \in SortEntitiesByPriority(validEntities) :
                             StepSeen("EntryFull", State, searchRetryCount,
                                      entryWaitCount, AfterUpdate(st),
                                      [pc |-> "click", entity |-> sorted[1],
                                       shown |-> shown],
                                      TRUE, TRUE, 0, "none", vis)

\* clickAndVerifyEntry (part_001:393-416): the click, RecordClick and
\* SetLastHighPriority; calls is the history of the clicks after it.
EntryClickWith(calls) ==
    /\ State = "Entry" /\ tick.pc = "click"
    /\ LET r == RecordClick(entities, blacklist, tick.entity, now)
       IN StepHist("EntryClick", State, searchRetryCount, entryWaitCount,
                   [entities |-> r.entities, blacklist |-> r.blacklist,
                    lastHighPriEntity |-> tick.entity],
                   [pc |-> "verify", attempt |-> 1, leftEntryScreen |-> FALSE],
                   TRUE, TRUE, 0, "entry", {}, calls)
    /\ UNCHANGED ctlVars

EntryClick == EntryClickWith(clickCalls)

\* a failed capture taken for a screen without the entry-screen marker
LeftEntryScreen_OnFailedCapture(before, cap, vis) ==
    before \/ ~cap \/ "finding" \notin vis

\* leftEntryScreen that tells of the last attempt only
LeftEntryScreen_LastAttempt(before, cap, vis) ==
    cap /\ "finding" \notin vis

\* leftEntryScreen after an attempt (part_001:416, 420-445): it is set when a
\* captured screen does not show the entry-screen marker, and stays set.
LeftEntryScreen(before, cap, vis) ==
    before \/ (cap /\ "finding" \notin vis)

\* One verification attempt of clickAndVerifyEntry (part_001:419-485), and
\* after the last one the end of the function (part_001:487-497).
EntryVerify ==
    /\ State = "Entry" /\ tick.pc = "verify"
    /\ \E cap \in BOOLEAN : \E vis \in Screens({"finding", "lobby", "skill", "exit"}) :
         LET left == LeftEntryScreen(tick.leftEntryScreen, cap, vis)
             again == [pc |-> "verify", attempt |-> tick.attempt + 1,
                       leftEntryScreen |-> left]
         IN /\ ~cap => vis = {}
            /\ IF cap /\ "finding" \notin vis /\ "lobby" \in vis
               THEN StepSeen("EntryVerify", "EntryWaiting", searchRetryCount, 0,
                         Reset, Idle, TRUE, FALSE, 5000, "none", vis)
               ELSE IF cap /\ "finding" \notin vis /\ "skill" \in vis
               THEN StepSeen("EntryVerify", "InGame", searchRetryCount, entryWaitCount,
                         Reset, Idle, TRUE, FALSE, InGameScanInterval, "none", vis)
               ELSE IF cap /\ "finding" \notin vis /\ "exit" \in vis
               THEN StepSeen("EntryVerify", "ExitStep1", searchRetryCount, entryWaitCount,
                         Reset, Idle, TRUE, FALSE, 0, "none", vis)
               ELSE IF tick.attempt < VerifyAttempts
               THEN StepSeen("EntryVerify", State, searchRetryCount, entryWaitCount,
                         Tracker, again, cap, FALSE, 0, "none", vis)
               ELSE IF left
               THEN StepSeen("EntryVerify", "InGame", searchRetryCount, entryWaitCount,
                         Reset, Idle, cap, FALSE, InGameScanInterval, "none", vis)
               ELSE StepSeen("EntryVerify", State, searchRetryCount, entryWaitCount,
                         Tracker, Idle, cap, FALSE, 0, "none", vis)

\* handleEntryWaitingState (part_001:503-561)
EntryWaitingTick ==
    /\ Ticking("EntryWaiting")
    /\ \E cap \in BOOLEAN : \E vis \in SUBSET {"lobby", "return"} :
         LET count == entryWaitCount + 1
         IN IF ~cap
            THEN /\ vis = {}
                 /\ count <= MaxWaitCount
                 /\ Step("EntryWaiting", State, searchRetryCount, count, Tracker,
                         Idle, FALSE, FALSE, 5000, "none")
            ELSE IF "lobby" \notin vis
            THEN /\ "return" \notin vis
                 /\ StepSeen("EntryWaiting", "InGame", searchRetryCount, 0,
                             Tracker, Idle, TRUE, FALSE, InGameScanInterval,
                             "none", vis)
            ELSE IF count >= MaxWaitChecks
            THEN StepSeen("EntryWaiting", "SearchOpen", searchRetryCount, 0,
                          Tracker, Idle, TRUE, TRUE, SearchScanInterval,
                          IF "return" \in vis THEN "return" ELSE "none", vis)
            ELSE /\ "return" \notin vis
                 /\ StepSeen("EntryWaiting", State, searchRetryCount, count,
                             Tracker, Idle, TRUE, TRUE, 5000, "none", vis)

\* a tick that advances whether or not its marker is on the screen
MarkerTick_AdvanceOnMiss(op, failed, hit, miss) ==
    \E cap \in BOOLEAN : \E found \in BOOLEAN :
        IF ~cap
        THEN /\ ~found
             /\ Step(op, State, searchRetryCount, entryWaitCount, Tracker, Idle,
                     FALSE, FALSE, failed, "none")
        ELSE IF found
        THEN Step(op, hit.state, hit.retry, entryWaitCount, hit.tracker, Idle,
                  TRUE, TRUE, hit.delay, hit.click)
        ELSE Step(op, hit.state, miss.retry, entryWaitCount, Tracker, Idle,
                  TRUE, FALSE, miss.delay, "none")

\* A handler that captures the screen and looks for one marker: what it does
\* when the capture fails, when the marker is found, and when it is not.
MarkerTick(op, failed, hit, miss) ==
    \E cap \in BOOLEAN : \E found \in BOOLEAN :
        IF ~cap
        THEN /\ ~found
             /\ Step(op, State, searchRetryCount, entryWaitCount, Tracker, Idle,
                     FALSE, FALSE, failed, "none")
        ELSE IF found
        THEN Step(op, hit.state, hit.retry, entryWaitCount, hit.tracker, Idle,
                  TRUE, TRUE, hit.delay, hit.click)
        ELSE Step(op, miss.state, miss.retry, entryWaitCount, Tracker, Idle,
                  TRUE, FALSE, miss.delay, "none")

\* handleInGameState (part_001:565-586)
InGameTick ==
    /\ Ticking("InGame")
    /\ MarkerTick("InGame", InGameScanInterval,
                  [state |-> "ExitStep1", retry |-> searchRetryCount,
                   tracker |-> Tracker, delay |-> 0, click |-> "none"],
                  [state |-> State, retry |-> searchRetryCount,
                   delay |-> InGameScanInterval])

\* handleExitState (part_001:598-615)
ExitTick ==
    /\ Ticking("ExitStep1")
    /\ MarkerTick("ExitStep1", 10000,
                  [state |-> "ExitStep2", retry |-> searchRetryCount,
                   tracker |-> Tracker, delay |-> WaitAfterClickNormal,
                   click |-> "exit"],
                  [state |-> State, retry |-> searchRetryCount, delay |-> 5000])

\* handleExitStep2State (part_001:618-637)
ExitStep2Tick ==
    /\ Ticking("ExitStep2")
    /\ MarkerTick("ExitStep2", SearchRetryInterval,
                  [state |-> "SearchOpen", retry |-> searchRetryCount,
                   tracker |-> Tracker, delay |-> SearchScanInterval,
                   click |-> "return"],
                  [state |-> State, retry |-> searchRetryCount,
                   delay |-> SearchRetryInterval])

\* a miss that, with the retries used up, goes back to the first search state
SearchMiss_ToOpen ==
    IF ReachedMaxRetries(searchRetryCount + 1)
    THEN [state |-> "SearchOpen", retry |-> 0, delay |-> SearchRetryInterval]
    ELSE [state |-> State, retry |-> searchRetryCount + 1,
          delay |-> SearchRetryInterval]

\* The end of a search handler that did not find its marker
\* (part_001:655-662, 681-688, 708-715).
SearchMiss ==
    IF ReachedMaxRetries(searchRetryCount + 1)
    THEN [state |-> "AutoDetect", retry |-> 0, delay |-> SearchRetryInterval]
    ELSE [state |-> State, retry |-> searchRetryCount + 1,
          delay |-> SearchRetryInterval]

\* handleSearchOpenState (part_001:639-663)
SearchOpenTick ==
    /\ Ticking("SearchOpen")
    /\ MarkerTick("SearchOpen", SearchRetryInterval,
                  [state |-> "SearchSelect", retry |-> 0, tracker |-> Tracker,
                   delay |-> WaitAfterClickNormal, click |-> "open"],
                  SearchMiss)

\* handleSearchSelectState (part_001:665-689)
SearchSelectTick ==
    /\ Ticking("SearchSelect")
    /\ MarkerTick("SearchSelect", SearchRetryInterval,
                  [state |-> "SearchVerify", retry |-> 0, tracker |-> Tracker,
                   delay |-> WaitAfterClickNormal, click |-> "select"],
                  SearchMiss)

\* handleSearchVerifyState (part_001:691-716)
SearchVerifyTick ==
    /\ Ticking("SearchVerify")
    /\ MarkerTick("SearchVerify", SearchRetryInterval,
                  [state |-> "Entry", retry |-> 0, tracker |-> Reset,
                   delay |-> 0, click |-> "none"],
                  SearchMiss)

\* In Spec the screen shows the lower button of 20.png or nothing.
FEntryTick == EntryTick({dLow})

Next ==
    \/ FStart \/ FStop \/ FAdvance
    \/ AutoDetectTick
    \/ FEntryTick \/ EntryClick \/ EntryVerify
    \/ EntryWaitingTick
    \/ InGameTick
    \/ ExitTick \/ ExitStep2Tick
    \/ SearchOpenTick \/ SearchSelectTick \/ SearchVerifyTick

Spec == FsmInit /\ [][Next]_vars

-----------------------------------------------------------------------------
(* SpecEntry: one visit to the Entry state, on screens that show any of the *)
(* entry buttons                                                            *)

\* The bot has been started and has reached Entry with a new tracker
\* (AutoDetect found the entry screen).
EntryInit ==
    /\ TrackerIdle /\ CtlIdle /\ MatchIdle
    /\ State = "Entry" /\ searchRetryCount = 0 /\ entryWaitCount = 0
    /\ tick = Idle
    /\ lastTick = [op |-> "AutoDetect", cap |-> TRUE, found |-> TRUE, delay |-> 0,
                   click |-> "none", fails |-> 0, vis |-> {}, visit |-> 0,
                   absent |-> FALSE]

EEntryTick == EntryTick(ShownButtons)

EntryNext == EEntryTick \/ EntryClick \/ EntryVerify \/ FAdvance

SpecEntry == EntryInit /\ [][EntryNext]_vars

-----------------------------------------------------------------------------
(* SpecBudget: one visit to the Entry state on screens that show one        *)
(* button or none, with the clicks on each key counted                      *)

\* The clicks performed on detections of the key k since the tracker was
\* last reset.
ClicksOn(k) == IF k \in DOMAIN clickCalls THEN clickCalls[k] ELSE 0

\* performClick, RecordClick and SetLastHighPriority, the click counted; the
\* count of a key is followed up to one click above maxClicks.
BudgetClick ==
    LET k == entityKey(tick.entity)
    IN /\ tick.pc = "click"
       /\ ClicksOn(k) <= maxClicks
       /\ EntryClickWith(MapPut(clickCalls, k, ClicksOn(k) + 1))

\* The screen shows the lower button of 20.png or nothing.
BudgetNext == FEntryTick \/ BudgetClick \/ EntryVerify \/ FAdvance

SpecBudget == EntryInit /\ [][BudgetNext]_vars

-----------------------------------------------------------------------------
(* SpecFull: the Entry state on screens that show entry buttons of two      *)
(* priorities                                                               *)

\* A button of 10.png, lower on the screen than the buttons of 20.png and
\* outside their ROI.
dTen == DetectedEntity(Name10, 10, 300, 700, 40, 40)

FullButtons == {dLow, dHigh, dTen, gBottom}

FFullTick == EntryTick(FullButtons)

FullNext == FFullTick \/ EntryClick \/ EntryVerify

SpecFull == EntryInit /\ [][FullNext]_vars

-----------------------------------------------------------------------------
(* SpecBot: Start, Stop and the loop goroutines of GlobalBot, interleaved   *)
(* (src/unnamed/part_001:115-197)                                           *)

\* The goroutines that call Start and Stop.
Callers == {"ui1", "ui2"}

\* The states a tick hands to setState; what matters to Start and Stop is
\* that they are not StateStopped.
TickStates == {"AutoDetect", "Entry"}

\* What the model leaves alone while Start, Stop and loop run.
botFrame == <<entities, blacklist, lastHighPriEntity, now, clickCalls, clickRun,
              searchRetryCount, entryWaitCount, tick, lastTick, matchVars>>

BotInit ==
    /\ TrackerIdle /\ FsmIdle /\ MatchIdle
    /\ stopChan = 0 /\ closedChans = {} /\ wg = 0 /\ mu = "free"
    /\ callers = [c \in Callers |-> [pc |-> "idle"]]
    /\ loops = <<>>

At(c, pc) == callers[c].pc = pc

Goto(c, pc) == callers' = [callers EXCEPT ![c] = [pc |-> pc]]

Alive(l) == loops[l].pc # "done"

InTick(l) == loops[l].pc \in {"tick", "setState"}

StartsBegun == stopChan + Cardinality({c \in Callers : At(c, "Start")})

\* a Start that refuses only while the bot auto-detects
Running_OnlyAutoDetect(s) == s = "AutoDetect"

\* b.State != StateStopped (part_001:123)
Running(s) == s # "Stopped"

\* A goroutine calls b.Start() and reaches b.mu.Lock() (part_001:121-122).
StartCall(c) ==
    /\ At(c, "idle")
    /\ StartsBegun < MaxStarts
    /\ Goto(c, "Start")
    /\ lastCall' = [op |-> "StartCall", by |-> c]
    /\ UNCHANGED <<State, stopChan, closedChans, wg, mu, loops, botFrame>>

\* Start's critical section (part_001:122-136): lock, the State check,
\* loadAllAssets, State and stopChan, unlock.  lastCall.load tells whether
\* loadAllAssets was called and how it ended, lastCall.games what it found
\* under find_game/games.
StartLocked(c) ==
    /\ At(c, "Start")
    /\ mu = "free"
    /\ \E dir \in GamesDirs :
         IF Running(State)
         THEN /\ Goto(c, "idle")
              /\ lastCall' = [op |-> "StartRefused", by |-> c,
                              load |-> "none", games |-> "none"]
              /\ UNCHANGED <<State, stopChan>>
         ELSE IF loadAllAssets(dir)
         THEN /\ Goto(c, "idle")
              /\ lastCall' = [op |-> "StartRefused", by |-> c,
                              load |-> "failed", games |-> dir]
              /\ UNCHANGED <<State, stopChan>>
         ELSE /\ State' = "AutoDetect"
              /\ stopChan' = stopChan + 1
              /\ Goto(c, "Start_Add")
              /\ lastCall' = [op |-> "StartLocked", by |-> c, load |-> "ok",
                              games |-> dir]
    /\ UNCHANGED <<closedChans, wg, mu, loops, botFrame>>

\* b.wg.Add(1) (part_001:139)
StartAdd(c) ==
    /\ At(c, "Start_Add")
    /\ wg' = wg + 1
    /\ Goto(c, "Start_go")
    /\ lastCall' = [op |-> "StartAdd", by |-> c]
    /\ UNCHANGED <<State, stopChan, closedChans, mu, loops, botFrame>>

\* go b.loop() (part_001:140), up to the loop's first select
StartGo(c) ==
    /\ At(c, "Start_go")
    /\ loops' = Append(loops, [pc |-> "select"])
    /\ Goto(c, "idle")
    /\ lastCall' = [op |-> "StartGo", by |-> c]
    /\ UNCHANGED <<State, stopChan, closedChans, wg, mu, botFrame>>

\* A goroutine calls b.Stop() and reaches b.mu.Lock() (part_001:143-144).
StopCall(c) ==
    /\ At(c, "idle")
    /\ Goto(c, "Stop")
    /\ lastCall' = [op |-> "StopCall", by |-> c]
    /\ UNCHANGED <<State, stopChan, closedChans, wg, mu, loops, botFrame>>

\* Stop takes the lock (part_001:144-151): it returns if the bot is stopped,
\* else it closes stopChan and goes on to wg.Wait() with the lock held.
StopLocked(c) ==
    /\ At(c, "Stop")
    /\ mu = "free"
    /\ IF State = "Stopped"
       THEN /\ Goto(c, "idle")
            /\ lastCall' = [op |-> "StopReturn", by |-> c]
            /\ UNCHANGED <<closedChans, mu>>
       ELSE IF stopChan \in closedChans
       THEN /\ Goto(c, "panic")      \* close of a closed channel
            /\ lastCall' = [op |-> "StopPanic", by |-> c]
            /\ mu' = "free"
            /\ UNCHANGED closedChans
       ELSE /\ closedChans' = closedChans \cup {stopChan}
            /\ mu' = c
            /\ Goto(c, "Stop_Wait")
            /\ lastCall' = [op |-> "StopClose", by |-> c]
    /\ UNCHANGED <<State, stopChan, wg, loops, botFrame>>

\* b.wg.Wait() returns, State = StateStopped, the deferred Unlock
\* (part_001:152-156)
StopWait(c) ==
    /\ At(c, "Stop_Wait")
    /\ wg = 0
    /\ State' = "Stopped"
    /\ mu' = "free"
    /\ Goto(c, "idle")
    /\ lastCall' = [op |-> "StopReturn", by |-> c]
    /\ UNCHANGED <<stopChan, closedChans, wg, loops, botFrame>>

\* The select of loop() takes case <-b.stopChan (part_001:164-166), and the
\* deferred b.wg.Done() runs.
LoopStop(l) ==
    /\ loops[l].pc = "select"
    /\ stopChan \in closedChans
    /\ loops' = [loops EXCEPT ![l] = [pc |-> "done"]]
    /\ wg' = wg - 1
    /\ lastCall' = [op |-> "LoopStop", by |-> l]
    /\ UNCHANGED <<State, stopChan, closedChans, mu, callers, botFrame>>

\* The select takes case <-timer.C (part_001:167-168) and processState reads
\* b.State (part_001:175): a handler starts, or the default branch returns.
LoopTimer(l) ==
    /\ loops[l].pc = "select"
    /\ loops' = [loops EXCEPT ![l] =
                    [pc |-> IF State = "Stopped" THEN "select" ELSE "tick"]]
    /\ lastCall' = [op |-> "LoopTimer", by |-> l]
    /\ UNCHANGED <<State, stopChan, closedChans, wg, mu, callers, botFrame>>

\* The handler returns without a transition, and the timer is reset
\* (part_001:169).
LoopTickReturn(l) ==
    /\ loops[l].pc = "tick"
    /\ loops' = [loops EXCEPT ![l] = [pc |-> "select"]]
    /\ lastCall' = [op |-> "LoopTickReturn", by |-> l]
    /\ UNCHANGED <<State, stopChan, closedChans, wg, mu, callers, botFrame>>

\* The handler calls b.setState(s) and reaches b.mu.Lock() (part_001:115-116).
LoopCallSetState(l) ==
    /\ loops[l].pc = "tick"
    /\ \E s \in TickStates :
         loops' = [loops EXCEPT ![l] = [pc |-> "setState", s |-> s]]
    /\ lastCall' = [op |-> "LoopCallSetState", by |-> l]
    /\ UNCHANGED <<State, stopChan, closedChans, wg, mu, callers, botFrame>>

\* setState gets the lock, writes b.State and unlocks (part_001:116-119); the
\* handler returns and the timer is reset.
LoopSetState(l) ==
    /\ loops[l].pc = "setState"
    /\ mu = "free"
    /\ State' = loops[l].s
    /\ loops' = [loops EXCEPT ![l] = [pc |-> "select"]]
    /\ lastCall' = [op |-> "LoopSetState", by |-> l]
    /\ UNCHANGED <<stopChan, closedChans, wg, mu, callers, botFrame>>

BotNext ==
    \/ \E c \in Callers : StartCall(c)
    \/ \E c \in Callers : StartLocked(c)
    \/ \E c \in Callers : StartAdd(c)
    \/ \E c \in Callers : StartGo(c)
    \/ \E c \in Callers : StopCall(c)
    \/ \E c \in Callers : StopLocked(c)
    \/ \E c \in Callers : StopWait(c)
    \/ \E l \in DOMAIN loops : LoopStop(l)
    \/ \E l \in DOMAIN loops : LoopTimer(l)
    \/ \E l \in DOMAIN loops : LoopTickReturn(l)
    \/ \E l \in DOMAIN loops : LoopCallSetState(l)
    \/ \E l \in DOMAIN loops : LoopSetState(l)

SpecBot == BotInit /\ [][BotNext]_vars

-----------------------------------------------------------------------------
(* SpecObserve: the writes of a tick to State, the counters and the tracker *)
(* one by one, and a goroutine that reads them in between                   *)

\* What a goroutine other than the loop reads: b.State under b.mu, the
\* counters, and the tracker through Stats and HasROI under the tracker's
\* own mutex.
View ==
    [State |-> State, entryWaitCount |-> entryWaitCount,
     searchRetryCount |-> searchRetryCount,
     tracked |-> Cardinality(DOMAIN entities),
     roi |-> HasROI(lastHighPriEntity)]

\* The writes of a transition: b.entryTracker.Reset(), b.entryWaitCount = 0,
\* b.searchRetryCount = 0 and b.setState(s).
WReset == [var |-> "tracker"]
WWait0 == [var |-> "entryWaitCount"]
WRetry0 == [var |-> "searchRetryCount"]
WState(s) == [var |-> "State", val |-> s]

\* The view after the write w.
ApplyWrite(v, w) ==
    IF w.var = "tracker" THEN [v EXCEPT !.tracked = 0, !.roi = FALSE]
    ELSE IF w.var = "entryWaitCount" THEN [v EXCEPT !.entryWaitCount = 0]
    ELSE IF w.var = "searchRetryCount" THEN [v EXCEPT !.searchRetryCount = 0]
    ELSE [v EXCEPT !.State = w.val]

RECURSIVE ApplyWrites(_, _)
ApplyWrites(v, ws) ==
    IF ws = <<>> THEN v ELSE ApplyWrites(ApplyWrite(v, Head(ws)), Tail(ws))

\* The sequences of writes with which the handler of the current state
\* changes the state, in the order of the code.
Transitions ==
    IF State = "AutoDetect" /\ tick.pc = "idle"              \* part_001:213-214
    THEN {<<WRetry0, WState(AutoDetectChecks[i][2])>> : i \in DOMAIN AutoDetectChecks}
    ELSE IF State = "Entry" /\ tick.pc = "idle"
    THEN {<<WReset, WState("ExitStep1")>>,                   \* 254-255, 476-477
          <<WReset, WWait0, WState("EntryWaiting")>>,        \* 265-267, 453-455
          <<WReset, WState("InGame")>>}                      \* 465-466, 490-491
    ELSE IF State = "EntryWaiting" /\ tick.pc = "waited"
    THEN {<<WWait0, WState("InGame")>>}                      \* 528-529, 535-536
         \cup IF entryWaitCount >= MaxWaitChecks
              THEN {<<WWait0, WState("SearchOpen")>>}        \* 554-555
              ELSE {}
    ELSE IF State = "InGame" /\ tick.pc = "idle"
    THEN {<<WState("ExitStep1")>>}                           \* 578
    ELSE IF State = "ExitStep1" /\ tick.pc = "idle"
    THEN {<<WState("ExitStep2")>>}                           \* 610
    ELSE IF State = "ExitStep2" /\ tick.pc = "idle"
    THEN {<<WState("SearchOpen")>>}                          \* 630
    ELSE IF State = "SearchOpen" /\ tick.pc = "idle"
    THEN {<<WRetry0, WState("SearchSelect")>>}               \* 649-650
    ELSE IF State = "SearchSelect" /\ tick.pc = "idle"
    THEN {<<WRetry0, WState("SearchVerify")>>}               \* 675-676
    ELSE IF State = "SearchVerify" /\ tick.pc = "idle"
    THEN {<<WRetry0, WReset, WState("Entry")>>}              \* 700-703
    ELSE IF State \in SearchStates /\ tick.pc = "missed"
            /\ ReachedMaxRetries(searchRetryCount)
    THEN {<<WRetry0, WState("AutoDetect")>>}                 \* 658-659, 684-685, 711-712
    ELSE {}

\* The bot after Start, before the first tick.
ObserveInit ==
    /\ TrackerIdle /\ MatchIdle
    /\ State = "AutoDetect" /\ searchRetryCount = 0 /\ entryWaitCount = 0
    /\ tick = Idle /\ lastTick = [op |-> "none"]
    /\ stopChan = 1 /\ closedChans = {} /\ wg = 1 /\ mu = "free"
    /\ callers = <<>> /\ loops = <<[pc |-> "tick"]>>

observeFrame == <<now, clickCalls, clickRun, lastTick, ctlVars, matchVars>>

\* A step of the loop goroutine: the fields it leaves behind and its position
\* in the tick.
LoopStep(st, retry, wait, trk, pc) ==
    /\ State' = st
    /\ searchRetryCount' = retry
    /\ entryWaitCount' = wait
    /\ entities' = trk.entities
    /\ blacklist' = trk.blacklist
    /\ lastHighPriEntity' = trk.lastHighPriEntity
    /\ tick' = pc
    /\ lastCall' = NoCall
    /\ UNCHANGED observeFrame

\* b.entryWaitCount++ at the start of handleEntryWaitingState (part_001:504)
WaitCount ==
    /\ State = "EntryWaiting" /\ tick.pc = "idle"
    /\ LoopStep(State, searchRetryCount, entryWaitCount + 1, Tracker,
                [pc |-> "waited"])

\* b.searchRetryCount++ of a search handler that missed its marker
\* (part_001:655, 681, 708)
MissCount ==
    /\ State \in SearchStates /\ tick.pc = "idle"
    /\ LoopStep(State, searchRetryCount + 1, entryWaitCount, Tracker,
                [pc |-> "missed"])

\* The handler returns without a transition: the lobby is still shown and
\* the checks are not used up (part_001:559-560), or the retries are not
\* (part_001:662, 688, 715).
HandlerReturn ==
    /\ \/ tick.pc = "waited" /\ entryWaitCount < MaxWaitChecks
       \/ tick.pc = "missed" /\ ~ReachedMaxRetries(searchRetryCount)
    /\ LoopStep(State, searchRetryCount, entryWaitCount, Tracker, Idle)

\* A click of handleEntryState that fails its verification: RecordClick and
\* SetLastHighPriority (part_001:393-416, 495-497).
FailedClick ==
    /\ State = "Entry" /\ tick.pc = "idle"
    /\ GetClickCount(entities, dLow) < MaxClickCalls
    /\ LET r == RecordClick(entities, blacklist, dLow, now)
       IN LoopStep(State, searchRetryCount, entryWaitCount,
                   [entities |-> r.entities, blacklist |-> r.blacklist,
                    lastHighPriEntity |-> dLow], Idle)

\* The handler has decided on a transition; before and after are the views
\* before its first write and after its last.
BeginTransition ==
    \E ws \in Transitions :
        LoopStep(State, searchRetryCount, entryWaitCount, Tracker,
                 [pc |-> "transition", writes |-> ws, before |-> View,
                  after |-> ApplyWrites(View, ws)])

\* The next write of the transition; setState locks and unlocks b.mu around
\* its write (part_001:115-119), Reset the tracker's mutex (entity.go:258-259).
TransitionWrite ==
    /\ tick.pc = "transition"
    /\ mu = "free"
    /\ LET w == Head(tick.writes)
           pc == IF Len(tick.writes) = 1 THEN Idle
                 ELSE [tick EXCEPT !.writes = Tail(@)]
       IN LoopStep(IF w.var = "State" THEN w.val ELSE State,
                   IF w.var = "searchRetryCount" THEN 0 ELSE searchRetryCount,
                   IF w.var = "entryWaitCount" THEN 0 ELSE entryWaitCount,
                   IF w.var = "tracker" THEN Reset ELSE Tracker,
                   pc)

\* Another goroutine reads the bot between two steps of the loop goroutine.
Observe ==
    /\ mu = "free"
    /\ lastCall' = [op |-> "Observe", view |-> View,
                    before |-> IF tick.pc = "transition" THEN tick.before ELSE View,
                    after |-> IF tick.pc = "transition" THEN tick.after ELSE View]
    /\ UNCHANGED <<trackerVars, clickCalls, clickRun, fsmVars, ctlVars, matchVars>>

ObserveNext ==
    \/ WaitCount \/ MissCount \/ HandlerReturn \/ FailedClick
    \/ BeginTransition \/ TransitionWrite
    \/ Observe

SpecObserve == ObserveInit /\ [][ObserveNext]_vars

-----------------------------------------------------------------------------
(* SpecROI: SetLastHighPriority, Reset, GetROI and HasROI called in any     *)
(* order                                                                    *)

\* The detections SetLastHighPriority is called with: at the corners, the
\* edges and the inside of the screen, of two template sizes and priorities.
ROIDetections ==
    {DetectedEntity(IF pri = 20 THEN Name20 ELSE Name10, pri, x, y, sz[1], sz[2]) :
        pri \in {10, 20}, x \in {0, 50, 100, 960, 1900},
        y \in {0, 100, 500, 950, 1040}, sz \in {<<40, 40>>, <<120, 60>>}}

\* lastCall.set and lastCall.last are history: whether SetLastHighPriority
\* was called since the last Reset (or since NewEntityTracker), and the
\* argument of its last call.
ROIInit ==
    /\ entities = EmptyMap /\ blacklist = EmptyMap
    /\ lastHighPriEntity = NoEntity /\ now = 0
    /\ clickCalls = EmptyMap /\ clickRun = EmptyMap
    /\ lastCall = [op |-> "none", set |-> FALSE, last |-> NoEntity]
    /\ FsmIdle /\ CtlIdle /\ MatchIdle

roiFrame == <<entities, blacklist, now, clickCalls, clickRun,
              fsmVars, ctlVars, matchVars>>

\* t.SetLastHighPriority(e) (entity.go:273-278)
RSetLastHighPriority ==
    \E e \in ROIDetections :
        /\ lastHighPriEntity' = e
        /\ lastCall' = [op |-> "SetLastHighPriority", set |-> TRUE, last |-> e]
        /\ UNCHANGED roiFrame

\* t.Reset()
RReset ==
    /\ lastHighPriEntity' = Reset.lastHighPriEntity
    /\ lastCall' = [op |-> "Reset", set |-> FALSE, last |-> NoEntity]
    /\ UNCHANGED roiFrame

\* t.GetROI() and t.HasROI()
RGetROI ==
    /\ lastCall' = [op |-> "GetROI", set |-> lastCall.set, last |-> lastCall.last,
                    roi |-> GetROI(lastHighPriEntity),
                    has |-> HasROI(lastHighPriEntity)]
    /\ UNCHANGED <<lastHighPriEntity, roiFrame>>

ROINext == RSetLastHighPriority \/ RReset \/ RGetROI

SpecROI == ROIInit /\ [][ROINext]_vars

-----------------------------------------------------------------------------
(* SpecLoad: loadTargets("find_game/games") on bounded directories, and the *)
(* ROI fast path of handleEntryState over the templates it returns          *)

\* The bytes that occur in the file names, in increasing order of their value.
ByteOrder == <<"-", ".", "0", "1", "2", "3", "4", "5", "6", "7", "8", "9",
               "g", "n", "p">>
ByteRank(c) == CHOOSE i \in DOMAIN ByteOrder : ByteOrder[i] = c

\* a < b on Go strings: the first byte that differs decides, and a proper
\* prefix is less.
StringLess(a, b) ==
    \E i \in 1..(Len(a) + 1) :
        /\ \A k \in 1..(i - 1) : k <= Len(b) /\ a[k] = b[k]
        /\ i <= Len(b)
        /\ i > Len(a) \/ ByteRank(a[i]) < ByteRank(b[i])

\* sort.Sort(sort.Reverse(sort.StringSlice(files))) (part_001:784): the
\* names, all different, from the greatest string to the least.
RECURSIVE ReverseSorted(_)
ReverseSorted(files) ==
    IF files = {} THEN <<>>
    ELSE LET top == CHOOSE f \in files :
                      \A g \in files \ {f} : StringLess(g, f)
         IN <<top>> \o ReverseSorted(files \ {top})

\* loadTargets("find_game/games") (part_001:777-797) on a directory whose
\* *.png files are `files`, of which those in `decodes` load: the names of
\* the targets returned.
loadTargetsGames(files, decodes) ==
    SelectSeq(ReverseSorted(files), LAMBDA f : f \in decodes)

\* File names as the template tool numbers them, from 20.png downwards, and a
\* second template of a priority.
Name9 == <<"9", ".", "p", "n", "g">>
Name19 == <<"1", "9", ".", "p", "n", "g">>
Name20b == <<"2", "0", "-", "1", ".", "p", "n", "g">>
GameFiles == {Name9, Name10, Name19, Name20, Name20b}

\* The entity the last click was on, and one hit of each template inside the
\* region of interest around it.
LoadLast == DetectedEntity(Name20, ExtractPriority(Name20), 100, 500, 40, 40)
HitOf(name) ==
    DetectedEntity(name, ExtractPriority(name),
                   100 + ExtractPriority(name), 500 - Len(name), 40, 40)

\* The ROI fast path of handleEntryState (part_001:277-308) with no entity
\* blacklisted: the templates in the order held, the hits of each inside the
\* ROI in scan order, and the first hit above the bottom line is clicked.
ROIFastPath(targets, shown, roi) ==
    LET hits == Detections(shown, targets, roi, 1)
    IN IF hits = <<>> THEN NoEntity ELSE hits[1]

LoadInit ==
    /\ entities = EmptyMap /\ blacklist = EmptyMap
    /\ lastHighPriEntity = NoEntity /\ now = 0
    /\ clickCalls = EmptyMap /\ clickRun = EmptyMap
    /\ \E files \in SUBSET GameFiles : lastCall = [op |-> "Glob", files |-> files]
    /\ FsmIdle /\ CtlIdle /\ MatchIdle

loadFrame == <<trackerVars, clickCalls, clickRun, fsmVars, ctlVars, matchVars>>

\* b.loadTargets("find_game/games")
LoadCall ==
    /\ lastCall.op = "Glob"
    /\ \E decodes \in SUBSET lastCall.files :
         lastCall' = [op |-> "loadTargets", files |-> lastCall.files,
                      targets |-> loadTargetsGames(lastCall.files, decodes)]
    /\ UNCHANGED loadFrame

\* The ROI fast path on a screen that shows hits of some of the templates
\* loaded inside the ROI.
ROIScan ==
    /\ lastCall.op = "loadTargets"
    /\ \E shown \in SUBSET {HitOf(n) : n \in Range(lastCall.targets)} :
         lastCall' = [op |-> "ROIFastPath", targets |-> lastCall.targets,
                      shown |-> shown,
                      entity |-> ROIFastPath(lastCall.targets, shown,
                                             GetROI(LoadLast))]
    /\ UNCHANGED loadFrame

LoadNext == LoadCall \/ ROIScan

SpecLoad == LoadInit /\ [][LoadNext]_vars

-----------------------------------------------------------------------------
(* Claims about the entity tracker *)

KeyLow == entityKey(dLow)
KeyHigh == entityKey(dHigh)

C5_Moved(k, e, d) ==
    /\ e.Priority = d.Priority
    /\ entityKey(d) # k
    /\ abs(e.Position.X - d.Position.X) <= 30
    /\ e.Position.Y - d.Position.Y > 0
    /\ e.Position.Y - d.Position.Y <= 200

\* The conclusion of C5 for a step of Update: afterwards the detection's key
\* holds the click count and first-seen time that key k held before, and the
\* old key k is gone.
C5_Transferred(k, d) ==
    /\ entityKey(d) \in DOMAIN entities'
    /\ entities'[entityKey(d)].ClickCount = entities[k].ClickCount
    /\ entities'[entityKey(d)].FirstSeen = entities[k].FirstSeen
    /\ k \notin DOMAIN entities'

\* C5 (as stated): whenever the tracker holds an entity and Update receives a
\* detection of the same priority with another key, within 30 px in x and up
\* to 200 px above it, the detection's key takes over the entity's click count
\* and first-seen time and the old key is removed.
C5_MovedEntityKeepsClicks ==
    [][ lastCall'.op = "Update" =>
          \A k \in DOMAIN entities :
            \A i \in DOMAIN lastCall'.detected :
              C5_Moved(k, entities[k].Entity, lastCall'.detected[i])
                => C5_Transferred(k, lastCall'.detected[i]) ]_vars

\* C5 (amended): the same, when the entity is the only tracked entity of its
\* priority and the detection is the only one of that priority in the call.
C5_OnlyMovedEntityKeepsClicks ==
    [][ lastCall'.op = "Update" =>
          \A k \in DOMAIN entities :
            \A i \in DOMAIN lastCall'.detected :
              ( /\ C5_Moved(k, entities[k].Entity, lastCall'.detected[i])
                /\ \A k2 \in DOMAIN entities \ {k} :
                      entities[k2].Entity.Priority # entities[k].Entity.Priority
                /\ \A j \in DOMAIN lastCall'.detected \ {i} :
                      lastCall'.detected[j].Priority # lastCall'.detected[i].Priority )
              => C5_Transferred(k, lastCall'.detected[i]) ]_vars

\* Update has just moved the clicked entity of the lower button to the key of
\* the upper one, with its click count and first-seen time, while a button of
\* another priority was seen in the same call.
C5_Witness ==
    /\ lastCall.op = "Update" /\ lastCall.moved = {KeyLow}
    /\ Len(lastCall.detected) = 2
    /\ KeyLow \notin DOMAIN entities
    /\ KeyHigh \in DOMAIN entities
    /\ entities[KeyHigh].ClickCount > 0
    /\ entities[KeyHigh].FirstSeen < entities[KeyHigh].LastSeen
    /\ entities[KeyHigh].LastSeen = now
    /\ entityKey(dOther) \in lastCall.seen

\* C6: an entity that no detection of an Update call is matched with (by its
\* key or as a moved entity) is still tracked after the call when the time
\* since it was last seen is at most the TTL, and is absent after the call
\* when that time exceeds the TTL.
C6_ExpiresAfterTTL ==
    [][ lastCall'.op = "Update" =>
          \A k \in DOMAIN entities :
            (k \notin lastCall'.seen /\ k \notin lastCall'.moved) =>
              (k \in DOMAIN entities' <=> now - entities[k].LastSeen <= ttl) ]_vars

\* Update has just expired an entity while another one, unseen for exactly
\* the TTL, is still tracked.
C6_Witness ==
    /\ lastCall.op = "Update" /\ lastCall.expired # {}
    /\ \E k \in DOMAIN entities :
          k \notin lastCall.seen /\ now - entities[k].LastSeen = ttl

\* C7 (as stated): after Update(detected), every detection of the call has a
\* tracked entity under its key.
C7_SeenEntitiesStay ==
    lastCall.op = "Update" =>
        \A i \in DOMAIN lastCall.detected :
            entityKey(lastCall.detected[i]) \in DOMAIN entities

\* C7 (amended): after Update(detected), every detection of the call has a
\* tracked entity under its key, unless a later detection of the call took
\* that entity over as a moved entity; the expiry pass removes no key seen in
\* the call.
C7_SeenEntitiesStayUnlessMoved ==
    lastCall.op = "Update" =>
        /\ \A i \in DOMAIN lastCall.detected :
              \/ entityKey(lastCall.detected[i]) \in DOMAIN entities
              \/ entityKey(lastCall.detected[i]) \in lastCall.moved
        /\ lastCall.expired \cap lastCall.seen = {}

\* Update has just seen two buttons and kept both, while an entity that was
\* not seen in the call was expired.
C7_Witness ==
    /\ lastCall.op = "Update"
    /\ Len(lastCall.detected) = 2
    /\ Cardinality(lastCall.seen) = 2
    /\ lastCall.seen \subseteq DOMAIN entities
    /\ lastCall.expired # {}

-----------------------------------------------------------------------------
(* Claims about the matcher *)

Searched == lastCall.op = "FindAllTemplates"

\* The positions at which the template lies inside the frame.
Placements ==
    {<<x, y>> : x \in 0..(frame.w - template.w), y \in 0..(frame.h - template.h)}

Opaque(img) ==
    \A y \in 1..img.h : \A x \in 1..img.w : img.pix[y][x][4] = 65535

\* The RGB distance of two pixels on the 0..255 scale is at most the
\* tolerance, computed over the integers.
WithinTolerance(s, t) ==
    LET dr == s[1] \div 256 - t[1] \div 256
        dg == s[2] \div 256 - t[2] \div 256
        db == s[3] \div 256 - t[3] \div 256
    IN dr * dr + dg * dg + db * db <= DefaultTolerance * DefaultTolerance

\* Every pixel of the template, placed at p, is within tolerance of the frame
\* pixel under it.
AllWithinTolerance(p) ==
    \A ty \in 1..template.h : \A tx \in 1..template.w :
        WithinTolerance(frame.pix[p[2] + ty][p[1] + tx], template.pix[ty][tx])

\* C8, as stated: for a template with no transparent pixels FindAllTemplates
\* returns a position iff every template pixel placed there is within
\* tolerance of the frame pixel under it.
C8_ReturnsExactlyTheMatches ==
    (Searched /\ Opaque(template)) =>
        \A p \in Placements : (p \in Range(matches)) <=> AllWithinTolerance(p)

\* C8, amended: every returned position is such a match, and every such match
\* is returned or lies up to half the template width to the right of a
\* returned position of its row.
C8_ReturnsTheMatchesUpToSkip ==
    (Searched /\ Opaque(template)) =>
        /\ \A p \in Range(matches) : p \in Placements /\ AllWithinTolerance(p)
        /\ \A p \in Placements :
              AllWithinTolerance(p) =>
                  \E q \in Range(matches) :
                      /\ q[2] = p[2]
                      /\ q[1] <= p[1]
                      /\ p[1] - q[1] <= GoDiv(template.w, 2)

\* An opaque template matched at two overlapping positions of one row: the
\* first is returned, the second is skipped.
C8_Witness ==
    /\ Searched /\ Opaque(template)
    /\ \E p \in Placements :
          /\ AllWithinTolerance(p) /\ p \notin Range(matches)
          /\ <<p[1] - 1, p[2]>> \in Range(matches)
    /\ \E p \in Placements : ~AllWithinTolerance(p)

\* The RGB values a transparent pixel is recoloured with: black, white and
\* the second template colour.
RecolourValues == {<<0, 0, 0>>, <<65535, 65535, 65535>>, <<38550, 5140, 5140>>}

TransparentAt(t) ==
    {<<x, y>> \in (1..t.w) \X (1..t.h) : t.pix[y][x][4] = 0}

\* The templates that differ from t in the RGB values of alpha = 0 pixels only.
Recolourings(t) ==
    {[t EXCEPT !.pix = [y \in 1..t.h |-> [x \in 1..t.w |->
                          IF <<x, y>> \in TransparentAt(t)
                          THEN <<c[<<x, y>>][1], c[<<x, y>>][2], c[<<x, y>>][3], 0>>
                          ELSE t.pix[y][x]]]] :
        c \in [TransparentAt(t) -> RecolourValues]}

\* C9: two templates that differ only in the RGB values of their alpha = 0
\* pixels give the same positions on every frame.
C9_TransparentPixelsIgnored ==
    Searched =>
        \A u \in Recolourings(template) :
            FindAllTemplates(frame, u, DefaultTolerance) = matches

\* A template whose top-left sampled pixel is transparent and whose other
\* pixel is opaque was found on a frame it does not match everywhere.
C9_Witness ==
    /\ Searched
    /\ template.w = 2 /\ template.h = 1
    /\ template.pix[1][1][4] = 0 /\ template.pix[1][2][4] = 65535
    /\ frame.w = 3
    /\ Len(matches) = 1
    /\ Cardinality(Recolourings(template)) > 1

-----------------------------------------------------------------------------
(* Claims about Start, Stop and loop *)

InStop(c) == callers[c].pc \in {"Stop", "Stop_Wait"}

AliveLoops == {l \in DOMAIN loops : Alive(l)}

\* A goroutine that is inside Start, Stop or loop takes a step.
StepInProgress ==
    \/ \E c \in Callers :
          StartLocked(c) \/ StartAdd(c) \/ StartGo(c) \/ StopLocked(c) \/ StopWait(c)
    \/ \E l \in DOMAIN loops :
          \/ LoopStop(l) \/ LoopTimer(l) \/ LoopTickReturn(l)
          \/ LoopCallSetState(l) \/ LoopSetState(l)

\* C1: a Stop call always returns -- while one is in progress, the goroutines
\* that are inside Start, Stop or loop are never all blocked -- and when it
\* has returned no loop goroutine is alive and State = StateStopped.
C1_StopReturnsAfterLoopExit ==
    /\ (\E c \in Callers : InStop(c)) => ENABLED StepInProgress
    /\ lastCall.op = "StopReturn" => (AliveLoops = {} /\ State = "Stopped")

\* One caller, one loop: Stop waits in wg.Wait() with b.mu held while the
\* tick in progress waits for b.mu in setState.
C1_Witness ==
    /\ \E c \in Callers : At(c, "Stop_Wait") /\ mu = c
    /\ Len(loops) = 1 /\ loops[1].pc = "setState"
    /\ wg = 1
    /\ stopChan = 1
    /\ \A c \in Callers : At(c, "Stop_Wait") \/ At(c, "idle")

\* C10: at most one loop goroutine is alive, and processState runs in at most
\* one goroutine, at any time.
C10_AtMostOneLoop ==
    /\ Cardinality(AliveLoops) <= 1
    /\ Cardinality({l \in DOMAIN loops : InTick(l)}) <= 1

\* Two loop goroutines are inside processState at once, on an open stopChan.
C10_Witness ==
    /\ Cardinality({l \in DOMAIN loops : InTick(l)}) = 2
    /\ stopChan \notin closedChans

-----------------------------------------------------------------------------
(* Claims about the state machine *)

\* The step is a tick in search state s that captured the screen and did
\* not find the marker of s.
FailedSearchTick(s) ==
    /\ State = s /\ tick = Idle
    /\ lastTick'.op = s /\ lastTick'.cap /\ ~lastTick'.found

C3_NoClickOnBlacklisted ==
    [][/\ tick'.pc = "click" => ~IsBlacklisted(blacklist', tick'.entity)
       /\ \A k \in DOMAIN blacklist :
             k \in DOMAIN blacklist' \/ blacklist' = EmptyMap]_vars

\* The ROI fast path is about to click the upper button, whose key is
\* blacklisted, after seven clicks on the lower one.
C3_Witness ==
    /\ tick.pc = "click" /\ lastTick.op = "EntryROI"
    /\ tick.entity = dHigh
    /\ IsBlacklisted(blacklist, dHigh)
    /\ entityKey(dLow) \notin DOMAIN blacklist
    /\ lastHighPriEntity = dLow

-----------------------------------------------------------------------------
(* Claims about Start, Stop and loop, continued *)

\* C11: once Stop has closed stopChan, no loop goroutine takes the timer case
\* of its select again, so processState is not called again: only a tick
\* that had begun before the close runs on.
C11_NoTickAfterClose ==
    [][\A l \in DOMAIN loops : LoopTimer(l) => stopChan \notin closedChans]_vars

\* One Start, one loop: processState has just been called although Stop has
\* closed stopChan and waits in wg.Wait().
C11_Witness ==
    /\ lastCall.op = "LoopTimer"
    /\ stopChan = 1 /\ stopChan \in closedChans
    /\ Len(loops) = 1 /\ loops[1].pc = "tick"
    /\ \E c \in Callers : At(c, "Stop_Wait")

\* C12: a Start that finds State # StateStopped returns without calling
\* loadAllAssets and leaves State, stopChan, the WaitGroup and the loop
\* goroutines as they are.
C12_StartWhileRunningHasNoEffect ==
    [][\A c \in Callers :
         (StartLocked(c) /\ State # "Stopped") =>
           /\ UNCHANGED <<State, stopChan, closedChans, wg, mu, loops>>
           /\ callers'[c].pc = "idle"
           /\ lastCall'.load = "none"]_vars

\* A Start has been refused while a loop goroutine was running.
C12_Witness ==
    /\ lastCall.op = "StartRefused" /\ lastCall.load = "none"
    /\ State # "Stopped"
    /\ AliveLoops # {}
    /\ stopChan \notin closedChans

-----------------------------------------------------------------------------
(* Claims about the state machine, continued *)

\* The step is a tick of handleAutoDetectState that captured the screen.
AutoDetectCaptured ==
    /\ State = "AutoDetect" /\ tick = Idle
    /\ lastTick'.op = "AutoDetect" /\ lastTick'.cap

\* The state of the first marker category of `order` that the screen vis
\* shows, "none" when it shows none of them.
Decided(order, vis) ==
    LET hits == {i \in DOMAIN order : order[i][1] \cap vis # {}}
    IN IF hits = {} THEN "none"
       ELSE order[CHOOSE i \in hits : \A j \in hits : i <= j][2]

\* An AutoDetect tick that captured the screen goes by `order`: a hit sets
\* the category's state and searchRetryCount = 0; no hit leaves AutoDetect
\* and returns SearchScanInterval (2 s).
FollowsOrder(order) ==
    AutoDetectCaptured =>
        LET st == Decided(order, lastTick'.vis)
        IN IF st = "none"
           THEN State' = "AutoDetect" /\ lastTick'.delay = 2000
           ELSE State' = st /\ searchRetryCount' = 0

\* in-game, exit, lobby, return, open, select, entry markers
OrderOpenBeforeSelect ==
    << <<{"skill"}, "InGame">>, <<{"exit"}, "ExitStep1">>,
       <<{"lobby"}, "EntryWaiting">>, <<{"return"}, "ExitStep2">>,
       <<{"open"}, "SearchOpen">>, <<{"select"}, "SearchSelect">>,
       <<{"finding", "games"}, "Entry">> >>

\* in-game, exit, lobby, return, select, open, entry markers
OrderSelectBeforeOpen ==
    << <<{"skill"}, "InGame">>, <<{"exit"}, "ExitStep1">>,
       <<{"lobby"}, "EntryWaiting">>, <<{"return"}, "ExitStep2">>,
       <<{"select"}, "SearchSelect">>, <<{"open"}, "SearchOpen">>,
       <<{"finding", "games"}, "Entry">> >>

\* C13 as stated: an AutoDetect tick with a captured screen takes the state
\* of the first matching category in the order in-game, exit, lobby, return,
\* open, select, entry; a hit sets searchRetryCount = 0; no match stays in
\* AutoDetect with a delay of 2 s.
C13_FirstMatchOpenBeforeSelect == [][FollowsOrder(OrderOpenBeforeSelect)]_vars

\* C13: the same with the order in-game, exit, lobby, return, select, open,
\* entry.
C13_FirstMatchSelectBeforeOpen == [][FollowsOrder(OrderSelectBeforeOpen)]_vars

\* The screen showed both the open and the select marker, and the tick chose
\* SearchSelect.
C13_Witness ==
    /\ lastTick.op = "AutoDetect" /\ lastTick.cap
    /\ lastTick.vis = {"open", "select"}
    /\ State = "SearchSelect" /\ tick = Idle
    /\ searchRetryCount = 0

\* C14: an AutoDetect tick whose captured screen shows the in-game marker
\* ends in InGame and returns InGameScanInterval (30 s), whatever else the
\* screen shows.
C14_InGameMarkerWins ==
    [][(AutoDetectCaptured /\ "skill" \in lastTick'.vis) =>
          (State' = "InGame" /\ lastTick'.delay = 30000)]_vars

\* The screen showed the in-game marker and the exit marker.
C14_Witness ==
    /\ lastTick.op = "AutoDetect" /\ lastTick.cap
    /\ lastTick.vis = {"skill", "exit"}
    /\ State = "InGame" /\ lastTick.delay = 30000

\* The step is the part of handleEntryState before any click, on a captured
\* screen.
EntryCaptured ==
    /\ State = "Entry" /\ tick = Idle
    /\ lastTick'.op \in {"Entry", "EntryROI", "EntryFull"} /\ lastTick'.cap

\* The step resets the tracker, sets state st and does not go on to a click.
ShortcutTo(st) ==
    /\ entities' = EmptyMap /\ blacklist' = EmptyMap
    /\ lastHighPriEntity' = NoEntity
    /\ State' = st
    /\ tick' = Idle

\* C15 as stated: an Entry tick whose captured screen shows the in-game
\* marker resets the tracker and sets InGame, one whose screen shows the
\* lobby marker resets the tracker and sets EntryWaiting, and neither clicks
\* an entry button.
C15_ShortcutsToInGameAndLobby ==
    [][EntryCaptured =>
         /\ "skill" \in lastTick'.vis => ShortcutTo("InGame")
         /\ ("lobby" \in lastTick'.vis /\ "skill" \notin lastTick'.vis)
               => ShortcutTo("EntryWaiting")]_vars

\* C15: an Entry tick whose captured screen shows the exit marker resets the
\* tracker and sets ExitStep1; otherwise, when the screen shows the lobby
\* marker, it resets the tracker and sets EntryWaiting with entryWaitCount = 0;
\* neither clicks an entry button.
C15_ShortcutsToExitAndLobby ==
    [][EntryCaptured =>
         /\ "exit" \in lastTick'.vis => ShortcutTo("ExitStep1")
         /\ ("lobby" \in lastTick'.vis /\ "exit" \notin lastTick'.vis)
               => (ShortcutTo("EntryWaiting") /\ entryWaitCount' = 0)]_vars

\* The screen showed the in-game marker and the lobby marker: the tick went
\* to EntryWaiting with an empty tracker.
C15_Witness ==
    /\ lastTick.op = "Entry" /\ lastTick.cap
    /\ lastTick.vis = {"skill", "lobby"}
    /\ State = "EntryWaiting" /\ tick = Idle
    /\ entities = EmptyMap /\ lastHighPriEntity = NoEntity

\* The step is the verification attempt after which clickAndVerifyEntry
\* returns.
VerifyEnds ==
    /\ State = "Entry" /\ tick.pc = "verify"
    /\ lastTick'.op = "EntryVerify" /\ tick' = Idle

\* The attempt captured a screen without the entry-screen marker and with a
\* lobby, in-game or exit marker.
Recognised ==
    /\ lastTick'.cap /\ "finding" \notin lastTick'.vis
    /\ lastTick'.vis \cap {"lobby", "skill", "exit"} # {}

\* C16: when no verification attempt after a click captured a screen without
\* the entry-screen marker, clickAndVerifyEntry returns after the 5th
\* attempt with State = Entry and delay 0, and the tracker is as the click
\* left it: not reset, the click counted, the ROI set on the clicked button.
C16_FailedClickRetriesFromEntry ==
    [][(VerifyEnds /\ ~lastTick'.absent) =>
          /\ tick.attempt = 5
          /\ State' = "Entry" /\ lastTick'.delay = 0
          /\ UNCHANGED <<entities, blacklist, lastHighPriEntity>>
          /\ lastHighPriEntity' # NoEntity
          /\ GetClickCount(entities', lastHighPriEntity') >= 1
          /\ HasROI(lastHighPriEntity')]_vars

\* The verification of a click has ended in Entry: the entry-screen marker
\* was on the 5th screen, no earlier attempt saw it absent, and the clicked
\* button is still tracked.
C16_Witness ==
    /\ State = "Entry" /\ tick = Idle
    /\ lastTick.op = "EntryVerify" /\ lastTick.cap /\ ~lastTick.absent
    /\ lastTick.vis = {"finding", "lobby"}
    /\ lastTick.delay = 0
    /\ lastHighPriEntity = dLow /\ GetClickCount(entities, dLow) = 2

\* C17: when some verification attempt captured a screen without the
\* entry-screen marker and no attempt recognised a lobby, in-game or exit
\* marker, clickAndVerifyEntry returns after the 5th attempt with the
\* tracker reset, State = InGame and InGameScanInterval (30 s); and it never
\* returns with State = InGame unless some attempt saw the entry-screen
\* marker absent.
C17_LeftEntryScreenAssumesInGame ==
    [][VerifyEnds =>
          /\ (lastTick'.absent /\ ~Recognised) =>
                /\ tick.attempt = 5
                /\ State' = "InGame" /\ lastTick'.delay = 30000
                /\ entities' = EmptyMap /\ blacklist' = EmptyMap
                /\ lastHighPriEntity' = NoEntity
          /\ State' = "InGame" => lastTick'.absent]_vars

\* The verification has ended in InGame although the 5th screen showed the
\* entry-screen marker again: an earlier attempt had seen it absent.
C17_Witness ==
    /\ State = "InGame" /\ tick = Idle
    /\ lastTick.op = "EntryVerify" /\ lastTick.cap /\ lastTick.absent
    /\ lastTick.vis = {"finding"}
    /\ lastTick.delay = 30000
    /\ entities = EmptyMap /\ lastHighPriEntity = NoEntity

\* C18: entryWaitCount is at most 10 in every reachable state.
C18_WaitCountAtMostTen == entryWaitCount <= 10

\* The wait counter stands at 11 after a tick of EntryWaiting whose capture
\* failed.
C18_Witness ==
    /\ State = "EntryWaiting" /\ tick = Idle
    /\ lastTick.op = "EntryWaiting" /\ ~lastTick.cap
    /\ entryWaitCount = 11

\* The step is a tick of EntryWaiting that captured a screen with the lobby
\* marker, in a visit in which every tick so far captured its screen.
LobbyCheck ==
    /\ State = "EntryWaiting" /\ tick = Idle
    /\ lastTick'.op = "EntryWaiting" /\ lastTick'.cap
    /\ "lobby" \in lastTick'.vis
    /\ lastTick.visit >= 0

\* C19: however EntryWaiting was entered, the first 9 checks of a visit that
\* see the lobby marker leave the state as it is, and the 10th clicks the
\* return marker if the screen shows it, sets entryWaitCount = 0 and sets
\* SearchOpen.
C19_LeavesLobbyOnTenthCheck ==
    [][LobbyCheck =>
         /\ lastTick.visit <= 9
         /\ lastTick.visit < 9 => State' = "EntryWaiting"
         /\ lastTick.visit = 9 =>
               /\ State' = "SearchOpen" /\ entryWaitCount' = 0
               /\ lastTick'.click = "return" <=> "return" \in lastTick'.vis]_vars

\* The first check of a visit entered from AutoDetect, in the second run of
\* the bot, has left the lobby for SearchOpen.
C19_Witness ==
    /\ State = "SearchOpen" /\ tick = Idle
    /\ lastTick.op = "EntryWaiting" /\ lastTick.cap
    /\ "lobby" \in lastTick.vis
    /\ lastTick.visit = 1
    /\ stopChan = 2

\* The step is a tick (or the part of it that ends it) that changes the
\* automation state.
TickChangesState ==
    /\ State # "Stopped" /\ State' # "Stopped"
    /\ State' # State

\* C20: after every tick that changes the automation state, searchRetryCount
\* = 0 and entryWaitCount = 0.
C20_CountersResetOnTransition ==
    [][TickChangesState => (searchRetryCount' = 0 /\ entryWaitCount' = 0)]_vars

\* AutoDetect has made a transition in the second run of the bot and the
\* wait counter of the first run is still there.
C20_Witness ==
    /\ lastTick.op = "AutoDetect" /\ lastTick.found
    /\ State = "InGame"
    /\ entryWaitCount > 0 /\ searchRetryCount = 0
    /\ stopChan = 2

\* The states in which no Entry phase is going on.
OtherPhases ==
    {"EntryWaiting", "InGame", "ExitStep1", "ExitStep2",
     "SearchOpen", "SearchSelect", "SearchVerify"}

\* C22: whenever the automation state is EntryWaiting, InGame, ExitStep1,
\* ExitStep2, SearchOpen, SearchSelect or SearchVerify, the tracker holds no
\* entity, no blacklist entry and no recorded high-priority entity.
C22_TrackerEmptyOutsideEntry ==
    State \in OtherPhases =>
        /\ entities = EmptyMap /\ blacklist = EmptyMap
        /\ lastHighPriEntity = NoEntity

\* AutoDetect has set InGame in the second run of the bot, and the tracker
\* still holds the clicked button of the Entry phase of the first run.
C22_Witness ==
    /\ State = "InGame" /\ lastTick.op = "AutoDetect"
    /\ entities # EmptyMap /\ lastHighPriEntity = dLow
    /\ stopChan = 2

\* The handlers whose first step is the capture of the screen.
TickOps ==
    {"AutoDetect", "Entry", "EntryWaiting", "InGame", "ExitStep1", "ExitStep2",
     "SearchOpen", "SearchSelect", "SearchVerify"}

\* The step is a tick whose screen capture fails.
FailedCaptureTick ==
    /\ State # "Stopped" /\ tick = Idle
    /\ lastTick'.op \in TickOps /\ ~lastTick'.cap

\* C23: a tick whose capture fails leaves the automation state, the tracker,
\* searchRetryCount and entryWaitCount as they were, clicks nothing, and
\* returns to the loop.
C23_FailedCaptureChangesNothing ==
    [][FailedCaptureTick =>
          /\ UNCHANGED <<State, entities, blacklist, lastHighPriEntity>>
          /\ UNCHANGED <<searchRetryCount, entryWaitCount>>
          /\ lastTick'.click = "none"
          /\ tick' = Idle]_vars

\* The first tick of a visit to EntryWaiting failed to capture the screen and
\* counted itself.
C23_Witness ==
    /\ State = "EntryWaiting" /\ tick = Idle
    /\ lastTick.op = "EntryWaiting" /\ ~lastTick.cap
    /\ lastTick.visit = -1
    /\ entryWaitCount = 1

\* The step is a check of EntryWaiting that captured the screen and saw the
\* lobby marker.
LobbySeenTick ==
    /\ State = "EntryWaiting" /\ tick = Idle
    /\ lastTick'.op = "EntryWaiting" /\ lastTick'.cap
    /\ "lobby" \in lastTick'.vis

\* C21: the bot does not stay for ever in a search state whose marker is not
\* found, nor in EntryWaiting while the lobby marker is seen. While the bot
\* stays in a search state searchRetryCount never goes down, every tick that
\* captures the screen and misses the marker either sets AutoDetect or raises
\* the counter, and the counter stays below SearchMaxRetries; while the bot
\* stays in EntryWaiting entryWaitCount never goes down, every check that
\* sees the lobby marker either leaves the state or raises the counter, and
\* after such a check the counter is below the limit of 10 checks.
C21_RetriesRunOut ==
    [][/\ \A s \in SearchStates :
            /\ (State = s /\ State' = s) => searchRetryCount' >= searchRetryCount
            /\ (FailedSearchTick(s) /\ State' # "AutoDetect") =>
                  /\ State' = s
                  /\ searchRetryCount' > searchRetryCount
                  /\ searchRetryCount' < SearchMaxRetries
       /\ (State = "EntryWaiting" /\ State' = "EntryWaiting") =>
              entryWaitCount' >= entryWaitCount
       /\ (LobbySeenTick /\ State' = "EntryWaiting") =>
              /\ entryWaitCount' > entryWaitCount
              /\ entryWaitCount' < MaxWaitChecks]_vars

\* A check that saw the lobby marker has left EntryWaiting for SearchOpen in
\* a visit in which a capture had failed, in the first run of the bot.
C21_Witness ==
    /\ State = "SearchOpen" /\ tick = Idle
    /\ lastTick.op = "EntryWaiting" /\ lastTick.cap
    /\ "lobby" \in lastTick.vis
    /\ lastTick.visit = -1
    /\ stopChan = 1

\* C24: a Start of the stopped bot that does not find loadable templates
\* under find_game/games reports a startup error, leaves Stopped and returns
\* without starting a loop goroutine.
C24_MissingTemplatesAbortStart ==
    [][\A c \in Callers :
         (StartLocked(c) /\ ~Running(State) /\ lastCall'.games # "present") =>
            /\ lastCall'.load = "failed"
            /\ State' = "Stopped"
            /\ callers'[c].pc = "idle"
            /\ UNCHANGED <<stopChan, wg, loops>>]_vars

\* Start found no file under find_game/games, has set AutoDetect and goes on
\* to start its loop goroutine.
C24_Witness ==
    /\ lastCall.op = "StartLocked" /\ lastCall.games = "missing"
    /\ lastCall.load = "ok"
    /\ State = "AutoDetect" /\ stopChan = 1
    /\ \E c \in Callers : At(c, "Start_Add")

-----------------------------------------------------------------------------
(* Claims about entityKey *)

Keyed == lastCall.op = "entityKey"

\* The distance of the two positions along each axis.
KeyDX == abs(lastCall.a.Position.X - lastCall.b.Position.X)
KeyDY == abs(lastCall.a.Position.Y - lastCall.b.Position.Y)

\* C27, as stated: two detections of one priority whose positions differ by
\* at most one quantization unit (20 px) in both axes get the same key.
C27_NearPositionsShareKey ==
    (Keyed /\ KeyDX <= 20 /\ KeyDY <= 20) => lastCall.ka = lastCall.kb

\* The grid cell of a coordinate: the multiples of 20 cut the axis into cells
\* [0, 20), [20, 40), ...
Cell(v) == CHOOSE c \in 0..v : 20 * c <= v /\ v < 20 * (c + 1)

\* C27, amended: two detections of one priority get the same key exactly when
\* their positions lie in the same 20-px grid cell in both axes.
C27_SameCellSameKey ==
    Keyed =>
        (lastCall.ka = lastCall.kb <=>
            /\ Cell(lastCall.a.Position.X) = Cell(lastCall.b.Position.X)
            /\ Cell(lastCall.a.Position.Y) = Cell(lastCall.b.Position.Y))

\* Two positions one pixel apart in x, on the two sides of a grid line, have
\* got different keys.
C27_Witness ==
    /\ Keyed
    /\ lastCall.a.Position.X = 19 /\ lastCall.b.Position.X = 20
    /\ lastCall.a.Position.Y = lastCall.b.Position.Y
    /\ lastCall.ka # lastCall.kb

-----------------------------------------------------------------------------
(* Claims about RecordClick and the ROI *)

\* The click count recorded under key k in the entity map ents.
CountOf(ents, k) == IF k \in DOMAIN ents THEN ents[k].ClickCount ELSE 0

\* C28: RecordClick on a key that is not blacklisted raises the key's click
\* count by exactly 1 (to 1 if the key had no entity), and it returns true and
\* blacklists the key exactly when the new count is maxClicks; on a
\* blacklisted key it returns true and changes no click count.  No other key
\* changes its count or its place on the blacklist.
C28_RecordClickCountsOne ==
    [][lastCall'.op = "RecordClick" =>
         LET k == lastCall'.key IN
         /\ \A j \in (DOMAIN entities \cup DOMAIN entities') \ {k} :
               CountOf(entities', j) = CountOf(entities, j)
         /\ \A j \in (DOMAIN blacklist \cup DOMAIN blacklist') \ {k} :
               j \in DOMAIN blacklist <=> j \in DOMAIN blacklist'
         /\ IF k \in DOMAIN blacklist
            THEN /\ lastCall'.ret
                 /\ CountOf(entities', k) = CountOf(entities, k)
                 /\ k \in DOMAIN blacklist'
            ELSE /\ k \in DOMAIN entities'
                 /\ CountOf(entities', k) = CountOf(entities, k) + 1
                 /\ lastCall'.ret <=> CountOf(entities', k) = maxClicks
                 /\ k \in DOMAIN blacklist' <=> CountOf(entities', k) = maxClicks]_vars

\* RecordClick was called on a blacklisted key: it returned true and the
\* click count is still maxClicks.
C28_Witness ==
    /\ lastCall.op = "RecordClick" /\ lastCall.blacklisted /\ lastCall.ret
    /\ CountOf(entities, lastCall.key) = maxClicks
    /\ lastCall.key \in DOMAIN blacklist

\* C29: HasROI is true exactly when SetLastHighPriority has been called since
\* the last Reset; GetROI is then the rectangle [x-100, x+w+100) x
\* [y-100, y+h+100) of the detection of the last such call; and GetROI is an
\* empty rectangle exactly when HasROI is false.
C29_ROIOfLastRecorded ==
    lastCall.op = "GetROI" =>
        /\ lastCall.has <=> lastCall.set
        /\ lastCall.set =>
              LET d == lastCall.last IN
              /\ lastCall.roi.MinX = d.Position.X - 100
              /\ lastCall.roi.MinY = d.Position.Y - 100
              /\ lastCall.roi.MaxX = d.Position.X + d.TemplateSize.X + 100
              /\ lastCall.roi.MaxY = d.Position.Y + d.TemplateSize.Y + 100
        /\ (lastCall.roi.MinX >= lastCall.roi.MaxX
              \/ lastCall.roi.MinY >= lastCall.roi.MaxY) <=> ~lastCall.has

\* GetROI was called after SetLastHighPriority had recorded a detection at
\* the top-left corner of the screen: the ROI reaches beyond the screen.
C29_Witness ==
    /\ lastCall.op = "GetROI" /\ lastCall.set /\ lastCall.has
    /\ lastCall.last.Position = [X |-> 0, Y |-> 0]
    /\ lastCall.roi.MinX = -100 /\ lastCall.roi.MaxX > 100

-----------------------------------------------------------------------------
(* Claims about the search in a region of interest *)

SearchedROI == lastCall.op = "FindAllTemplatesInROI"

\* The region has no pixel: it is the zero rectangle, or it has no width or
\* no height, or its corners are the wrong way round.
NoPixelIn(r) == ~\E x, y \in -1..9 : r.MinX <= x /\ x < r.MaxX /\ r.MinY <= y /\ y < r.MaxY

\* C26: FindAllTemplatesInROI called with an empty or degenerate region
\* returns exactly the positions FindAllTemplates returns for the same frame,
\* template and tolerance.
C26_EmptyROISearchesWholeFrame ==
    (SearchedROI /\ NoPixelIn(lastCall.roi)) =>
        matches = FindAllTemplates(frame, template, DefaultTolerance)

\* The search was called with a region whose corners are swapped and has
\* returned two positions of the frame.
C26_Witness ==
    /\ SearchedROI
    /\ lastCall.roi.MinX > lastCall.roi.MaxX
    /\ Len(matches) = 2

-----------------------------------------------------------------------------
(* Claims about the choice of the button to click *)

\* The step ends the full-frame scan of handleEntryState with a button to
\* click.
FullPathChoice == lastTick'.op = "EntryFull" /\ tick'.pc = "click"

\* The clicked detection is one of the candidates, none of them has a higher
\* priority, and none of those of its priority has a greater Y.
BestOf(candidates, e) ==
    /\ e \in candidates
    /\ \A d \in candidates :
          /\ d.Priority <= e.Priority
          /\ d.Priority = e.Priority => d.Position.Y <= e.Position.Y

\* The matches of the entry templates on the frame of the tick whose key is
\* not blacklisted once the tracker has been updated.
ValidMatches == {d \in tick'.shown : entityKey(d) \notin DOMAIN blacklist'}

\* C30, as stated: on the full-frame path the detection that is clicked has
\* the highest priority among all non-blacklisted detections of the frame
\* and, among those of that priority, the greatest Y.
C30_ClicksBestOfFrame ==
    [][FullPathChoice => BestOf(ValidMatches, tick'.entity)]_vars

\* C30, amended: the same among the detections that are not below the bottom
\* line (Y <= 950).
C30_ClicksBestAboveBottomLine ==
    [][FullPathChoice =>
          BestOf({d \in ValidMatches : d.Position.Y <= 950}, tick'.entity)]_vars

\* The full-frame path is about to click the button of 10.png on a frame
\* that also shows the blacklisted lower button of 20.png and a match of
\* 20.png below the bottom line.
C30_Witness ==
    /\ tick.pc = "click" /\ lastTick.op = "EntryFull"
    /\ tick.entity = dTen
    /\ dLow \in tick.shown /\ gBottom \in tick.shown
    /\ entityKey(dLow) \in DOMAIN blacklist

-----------------------------------------------------------------------------
(* Claims about what other goroutines see *)

Observed == lastCall.op = "Observe"

\* C25: a state transition is atomic to other goroutines: what one of them
\* reads of State, the counters and the tracker is what they held before the
\* transition or what they hold after it, never the tracker or a counter
\* already reset with the old State, nor the new State with the old tracker
\* or counter.
C25_TransitionsLookAtomic ==
    Observed => lastCall.view \in {lastCall.before, lastCall.after}

\* A goroutine has read State = Entry and an empty tracker during the
\* transition from Entry, with a tracked and clicked button, to EntryWaiting.
C25_Witness ==
    /\ Observed
    /\ lastCall.before.State = "Entry" /\ lastCall.before.tracked = 1
    /\ lastCall.after.State = "EntryWaiting"
    /\ lastCall.view.State = "Entry" /\ lastCall.view.tracked = 0
    /\ tick.pc = "transition"

-----------------------------------------------------------------------------
(* C31: FindAllTemplates against a reference scan *)

\* The full comparison at the placement p of the template on the frame.
FullMatch(p) == match(frame, template, p[1], p[2], DefaultTolerance)

\* The reference scan of one row from the cursor x: every position where the
\* full comparison succeeds is reported, and the cursor then moves on by half
\* the template width before the next position is taken.
RECURSIVE RefRow(_, _)
RefRow(y, x) ==
    IF x > frame.w - template.w THEN <<>>
    ELSE IF FullMatch(<<x, y>>)
         THEN <<(<<x, y>>)>> \o RefRow(y, x + (template.w \div 2) + 1)
         ELSE RefRow(y, x + 1)

\* The rows from y down to the last one, top to bottom.
RECURSIVE RefRows(_)
RefRows(y) ==
    IF y > frame.h - template.h THEN <<>>
    ELSE RefRow(y, 0) \o RefRows(y + 1)

RowMajorBefore(p, q) == p[2] < q[2] \/ (p[2] = q[2] /\ p[1] < q[1])

Reported(p) == \E i \in 1..Len(matches) : matches[i] = p

\* C31: FindAllTemplates returns the sequence of the reference scan; the
\* positions come in strictly increasing row-major order, and every position
\* where the full comparison succeeds and that is not returned lies to the
\* right of a returned position of its row, at most half the template width
\* away.
C31_ReturnsReferenceScan ==
    Searched =>
        /\ matches = RefRows(0)
        /\ \A i \in 1..Len(matches) : \A j \in 1..Len(matches) :
               i < j => RowMajorBefore(matches[i], matches[j])
        /\ \A p \in Placements :
               FullMatch(p) /\ ~Reported(p) =>
                   \E i \in 1..Len(matches) :
                       /\ matches[i][2] = p[2]
                       /\ matches[i][1] < p[1]
                       /\ p[1] - matches[i][1] <= template.w \div 2

\* A search that returned two positions and skipped a third where the full
\* comparison succeeds.
C31_Witness ==
    /\ Searched
    /\ Len(matches) >= 2
    /\ \E p \in Placements : FullMatch(p) /\ ~Reported(p)

-----------------------------------------------------------------------------
(* C39: the quick checks against the full comparison *)

\* The scan of the positions of area from the cursor (x, y) with the full
\* comparison alone: no pixel is sampled before match is called.
RECURSIVE PlainScan(_, _, _)
PlainScan(area, x, y) ==
    IF y > area.MaxY - template.h THEN <<>>
    ELSE IF x > area.MaxX - template.w THEN PlainScan(area, area.MinX, y + 1)
    ELSE IF match(frame, template, x, y, DefaultTolerance)
         THEN <<(<<x, y>>)>> \o PlainScan(area, x + GoDiv(template.w, 2) + 1, y)
         ELSE PlainScan(area, x + 1, y)

WholeFrame == Rect(0, 0, frame.w, frame.h)

\* FindAllTemplates with the quick checks removed
PlainFindAll == PlainScan(WholeFrame, 0, 0)

\* FindAllTemplatesInROI with the quick checks removed
PlainFindAllInROI(roi) ==
    IF RectEmpty(roi) THEN PlainFindAll
    ELSE LET searchArea == Intersect(roi, WholeFrame)
         IN IF \/ RectEmpty(searchArea)
               \/ searchArea.MaxX - searchArea.MinX < template.w
               \/ searchArea.MaxY - searchArea.MinY < template.h
            THEN <<>>
            ELSE PlainScan(searchArea, searchArea.MinX, searchArea.MinY)

\* Tolerances that accept only equal colours, the colours the bot accepts,
\* and colours 100 apart.
QuickTolerances == {0, DefaultTolerance, 2 * DefaultTolerance}

SearchedROI39 == lastCall.op = "FindAllTemplatesInROI"

\* C39: at no position and for no tolerance do the quick checks reject what
\* the full comparison accepts, and both searches return what the same scans return without the
\* quick checks.
C39_QuickChecksRejectNoMatch ==
    /\ \A p \in Placements : \A tolerance \in QuickTolerances :
           match(frame, template, p[1], p[2], tolerance)
               => QuickChecks(frame, template, p[1], p[2], tolerance)
    /\ Searched => matches = PlainFindAll
    /\ SearchedROI39 => matches = PlainFindAllInROI(lastCall.roi)

\* A search inside a region with a template whose center pixel is transparent
\* and lies over a frame pixel whose colour is not within the tolerance of it;
\* the template is found there.
C39_Witness ==
    /\ SearchedROI39
    /\ ~RectEmpty(lastCall.roi)
    /\ template.w = 3
    /\ template.pix[1][2] = Transparent
    /\ template.pix[1][1] # Transparent
    /\ \E i \in 1..Len(matches) :
           ~colorSimilar(getRgbAndAlpha(frame, matches[i][1] + 1, matches[i][2])[1],
                         0, 0, 0, 0, 0, DefaultTolerance)

-----------------------------------------------------------------------------
(* C40: colorSimilar against the test over the integers *)

Compared == lastCall.op = "colorSimilar"

\* the channels of the two pixels compared, on the 0..255 scale
ScreenRGB == getRgbAndAlpha(frame, 0, 0)
TemplateRGB == getRgbAndAlpha(template, 0, 0)

\* (r1-r2)^2 + (g1-g2)^2 + (b1-b2)^2 <= tolerance^2 over the integers
ExactSimilar(s, t, tolerance) ==
    LET dr == s[1] - t[1]
        dg == s[2] - t[2]
        db == s[3] - t[3]
    IN dr * dr + dg * dg + db * db <= tolerance * tolerance

\* C40: with channel values in 0..255 and tolerance 60, colorSimilar on
\* uint32 gives the verdict of the exact test over the integers; and the
\* square of a wrapped difference is the square of the difference, for every
\* difference -255..255 (the red channel of a grey pixel against every value
\* in 0..255).
C40_WrappedVerdictIsExact ==
    /\ Compared =>
           lastCall.ret = ExactSimilar(ScreenRGB, TemplateRGB, DefaultTolerance)
    /\ Compared /\ frame = template /\ ScreenRGB[2] = ScreenRGB[1]
                /\ ScreenRGB[3] = ScreenRGB[1] =>
           \A v \in 0..255 :
               LET d == Sub32(U32(ScreenRGB[1]), U32(v))
               IN Mul32(d, d) = U32((ScreenRGB[1] - v) * (ScreenRGB[1] - v))

\* A comparison in which the red difference wraps, the green one does not,
\* and the colours are similar.
C40_Witness ==
    /\ Compared
    /\ ScreenRGB[1] < TemplateRGB[1]
    /\ ScreenRGB[2] > TemplateRGB[2]
    /\ lastCall.ret

-----------------------------------------------------------------------------
(* C32: the edges of the state machine *)

\* The state changes a tick may make.
TickEdges ==
    ({"AutoDetect"} \X {"InGame", "ExitStep1", "EntryWaiting", "ExitStep2",
                        "SearchOpen", "SearchSelect", "Entry"})
    \cup ({"Entry"} \X {"EntryWaiting", "InGame", "ExitStep1"})
    \cup ({"EntryWaiting"} \X {"InGame", "SearchOpen"})
    \cup {<<"InGame", "ExitStep1">>, <<"ExitStep1", "ExitStep2">>,
          <<"ExitStep2", "SearchOpen">>}
    \cup ({"SearchOpen"} \X {"SearchSelect", "AutoDetect"})
    \cup ({"SearchSelect"} \X {"SearchVerify", "AutoDetect"})
    \cup ({"SearchVerify"} \X {"Entry", "AutoDetect"})

\* C32: a step that changes State is a Stop that sets Stopped, a Start that
\* leaves Stopped, or a step of a tick along one of the edges of TickEdges,
\* none of which starts or ends in Stopped.
C32_StateChangesFollowEdges ==
    [][State' # State =>
          /\ (State' = "Stopped") = (lastTick'.op = "Stop")
          /\ (State = "Stopped") = (lastTick'.op = "Start")
          /\ lastTick'.op \notin {"Stop", "Start"}
                 => <<State, State'>> \in TickEdges]_vars

\* A tick of SearchVerify has used up the retries and gone back to AutoDetect.
C32_Witness ==
    /\ State = "AutoDetect"
    /\ lastTick.op = "SearchVerify"
    /\ ~lastTick.found

-----------------------------------------------------------------------------
(* C33: the advancing transitions and their clicks *)

\* The advancing transitions: the state left, the state entered, and the
\* marker the handler of the state left looks for.
Advancing ==
    {<<"ExitStep1", "ExitStep2", "exit">>, <<"ExitStep2", "SearchOpen", "return">>,
     <<"SearchOpen", "SearchSelect", "open">>,
     <<"SearchSelect", "SearchVerify", "select">>,
     <<"SearchVerify", "Entry", "finding">>}

\* The step is the advancing transition e.
Advances(e) == State = e[1] /\ State' = e[2]

\* The step belongs to a tick of the state left that captured the screen and
\* found the marker.
FoundOwnMarker(e) ==
    lastTick'.op = e[1] /\ lastTick'.cap /\ lastTick'.found

\* C33, as stated: each advancing transition happens only in a tick of the
\* state left that found the state's marker and clicked it once.
C33_AdvancesOnlyWithClick ==
    [][\A e \in Advancing :
          Advances(e) => FoundOwnMarker(e) /\ lastTick'.click = e[3]]_vars

\* C33, amended: each advancing transition happens only in a tick of the
\* state left that found the state's marker; the tick clicked the marker
\* once, except the tick of SearchVerify, which clicks nothing.
C33_AdvancesOnlyOnMarker ==
    [][\A e \in Advancing :
          Advances(e) =>
              /\ FoundOwnMarker(e)
              /\ lastTick'.click = IF e[1] = "SearchVerify" THEN "none" ELSE e[3]]_vars

\* The tick of SearchVerify has found the highlight and entered Entry without
\* a click.
C33_Witness ==
    /\ State = "Entry"
    /\ lastTick.op = "SearchVerify"
    /\ lastTick.found
    /\ lastTick.click = "none"

-----------------------------------------------------------------------------
(* C34: the order of the entry templates *)

Priorities(targets) == [i \in DOMAIN targets |-> ExtractPriority(targets[i])]

\* C34: the entry templates loaded are in non-increasing order of priority,
\* and the hit the ROI fast path clicks has the highest priority of the hits
\* inside the ROI.
C34_TargetsByPriority ==
    /\ lastCall.op = "loadTargets" =>
           \A i, j \in DOMAIN lastCall.targets :
               i < j => Priorities(lastCall.targets)[i]
                            >= Priorities(lastCall.targets)[j]
    /\ lastCall.op = "ROIFastPath" /\ lastCall.shown # {} =>
           /\ lastCall.entity \in lastCall.shown
           /\ \A e \in lastCall.shown : e.Priority <= lastCall.entity.Priority

\* The directory holds 9.png and 10.png, both load, the screen shows a hit of
\* each inside the ROI, and the fast path clicks the hit of 9.png.
C34_Witness ==
    /\ lastCall.op = "ROIFastPath"
    /\ lastCall.targets = <<Name9, Name10>>
    /\ lastCall.shown = {HitOf(Name9), HitOf(Name10)}
    /\ lastCall.entity = HitOf(Name9)

-----------------------------------------------------------------------------
(* C35: the click budget of a key *)

\* C35: since the tracker was last reset, the bot has clicked detections of
\* one key at most maxClicks times.
C35_AtMostMaxClicksPerKey ==
    \A k \in DOMAIN clickCalls : clickCalls[k] <= maxClicks

\* The bot is still in Entry, the tracker has not been reset since the visit
\* began, and the key of the lower button has been clicked more than
\* maxClicks times while the tracker counts fewer clicks for it.
C35_Witness ==
    /\ State = "Entry"
    /\ ClicksOn(entityKey(dLow)) > maxClicks
    /\ GetClickCount(entities, dLow) < maxClicks
    /\ ~IsBlacklisted(blacklist, dLow)

-----------------------------------------------------------------------------
(* C36: a detection beside a tracked entity *)

\* The detection d is beside the entity tracked under k: the same priority
\* and y, at most xThreshold apart in x, and another key.
Beside(ents, k, d) ==
    /\ ents[k].Entity.Priority = d.Priority
    /\ ents[k].Entity.Position.Y = d.Position.Y
    /\ abs(ents[k].Entity.Position.X - d.Position.X) <= xThreshold
    /\ entityKey(d) # k

\* The step is an Update with the one detection d, which is beside the only
\* tracked entity, tracked under k.
UpdateBeside(k, d) ==
    /\ DOMAIN entities = {k}
    /\ Beside(entities, k, d)
    /\ lastCall'.op = "Update"
    /\ lastCall'.detected = <<d>>

\* C36: an Update with a detection beside the tracked entity stores that
\* entity's ClickCount and FirstSeen under the detection's key, gives the
\* detection's key the blacklist status of the old key, and creates no
\* entity with zero clicks in its place.
C36_SidewaysMoveKeepsClicks ==
    [][\A k \in DOMAIN entities : \A d \in SideDetections :
          UpdateBeside(k, d) =>
              /\ entityKey(d) \in DOMAIN entities'
              /\ entities'[entityKey(d)].ClickCount = entities[k].ClickCount
              /\ entities'[entityKey(d)].FirstSeen = entities[k].FirstSeen
              /\ (entityKey(d) \in DOMAIN blacklist') = (k \in DOMAIN blacklist)]_vars

\* The button was clicked at (100, 500) and then detected at (99, 500): it
\* is tracked twice, with its clicks under the old key and with zero clicks
\* under the new one.
C36_Witness ==
    /\ lastCall.op = "Update"
    /\ lastCall.detected = <<dSide>>
    /\ lastCall.moved = {}
    /\ DOMAIN entities = {entityKey(dLow), entityKey(dSide)}
    /\ entities[entityKey(dLow)].ClickCount > 0
    /\ entities[entityKey(dSide)].ClickCount = 0

-----------------------------------------------------------------------------
(* C37: the click counts and the blacklist *)

\* C37: every tracked entity has a ClickCount from 0 to maxClicks, and the
\* key of every entity whose ClickCount is maxClicks is in the blacklist.
C37_CountsWithinBudget ==
    \A k \in DOMAIN entities :
        /\ entities[k].ClickCount >= 0
        /\ entities[k].ClickCount <= maxClicks
        /\ entities[k].ClickCount = maxClicks => k \in DOMAIN blacklist

\* An Update has moved an entity with maxClicks clicks to the key of the
\* upper button, which is blacklisted in place of the old key.
C37_Witness ==
    /\ lastCall.op = "Update"
    /\ lastCall.moved = {entityKey(dLow)}
    /\ entityKey(dHigh) \in DOMAIN entities
    /\ entities[entityKey(dHigh)].ClickCount = maxClicks
    /\ entityKey(dHigh) \in DOMAIN blacklist
    /\ entityKey(dLow) \notin DOMAIN blacklist

-----------------------------------------------------------------------------
(* C38: the outcome of Update and the order of the entity map *)

\* C38: an Update call leaves the entities (with their click counts) and the
\* blacklist that every execution of Update on the same tracker state and
\* the same detections leaves, whichever key findMovedEntity meets first.
C38_UpdateDeterministic ==
    [][lastCall'.op = "Update" =>
          \A st \in Update(entities, blacklist, lastCall'.detected, now) :
              st.entities = entities' /\ st.blacklist = blacklist']_vars

\* Both lower buttons were tracked, the lowest with a click, when the top
\* button was detected: this execution took the entity of the middle button
\* for the one that moved, so the top button starts with zero clicks and the
\* clicked entity stays where it was.
C38_Witness ==
    /\ lastCall.op = "Update"
    /\ lastCall.detected = <<dTop>>
    /\ lastCall.moved = {entityKey(dHigh)}
    /\ entityKey(dLow) \in DOMAIN entities
    /\ entities[entityKey(dLow)].ClickCount > 0
    /\ entities[entityKey(dTop)].ClickCount = 0

=============================================================================
